---------------------------- MODULE Spec2Model ----------------------------
(***************************************************************************)
(* Model of the digest package of mitum-data-blocksign: the Database        *)
(* (derived store: five collections and the last-block marker), DigestBlock *)
(* and the Digester (producers calling Digest, the bounded block channel    *)
(* and the consumption loop of Digester.start).                             *)
(*                                                                          *)
(* A block is identified by its height.  A record of a collection is        *)
(* identified by the height of the block that produced it, so a collection  *)
(* is a set of heights.                                                     *)
(***************************************************************************)
EXTENDS Integers, Sequences, FiniteSets, TLC

(***************************************************************************)
(* Bounds of the model.                                                     *)
(***************************************************************************)
MaxHeight == 1      \* blocks have heights 0..MaxHeight
MaxEvents == 3      \* blocks handed to Digest, reported failures of
                    \* DigestBlock, direct calls of the Database's methods
                    \* and the cancellation, together
QueueCap == 1       \* capacity of blockChan (100 in NewDigester, scaled down)

(***************************************************************************)
(* Program constants.                                                       *)
(***************************************************************************)
NilHeight == -2           \* base.NilHeight
PreGenesisHeight == -1    \* base.PreGenesisHeight

defaultColNameAccount == "digest_ac"
defaultColNameDocument == "digest_dm"
defaultColNameBalance == "digest_bl"
defaultColNameOperation == "digest_op"
defaultColNameFileData == "digest_fd"

Collections ==
  { defaultColNameAccount, defaultColNameDocument, defaultColNameBalance,
    defaultColNameOperation, defaultColNameFileData }

\* the collections clean() drops, in the order of its loop
cleanCols ==
  << defaultColNameAccount, defaultColNameDocument, defaultColNameBalance,
     defaultColNameOperation, defaultColNameFileData >>

\* the collections cleanByHeight() removes from, in the order of its loop
cleanByHeightCols ==
  << defaultColNameAccount, defaultColNameDocument, defaultColNameBalance,
     defaultColNameOperation >>

Heights == 0..MaxHeight
\* the goroutines calling Digester.Digest
Producers == { "p1", "p2" }
NoBlock == NilHeight

Range(s) == { s[i] : i \in 1..Len(s) }

VARIABLES
  readonly,    \* Database.readonly
  lastBlock,   \* Database.lastBlock, the in-memory marker
  info,        \* the persisted marker: the info document digest_last_block
  cols,        \* the five collections: collection name -> set of heights
  blockChan,   \* Digester.blockChan
  calls,       \* per producer: the blocks its Digest call still has to send
  cancelled,   \* ctx.Done() of Digester.start is closed
  loop,        \* position of Digester.start
  blk,         \* the block Digester.start dequeued
  locked,      \* Digester's mutex is held (Digester.digest)
  sessions,    \* DigestBlock executions in progress: [blk, step]
  reports,     \* DigestErrors handed to goroutines sending on errChan
  errChanSet,  \* Digester.errChan # nil
  events,      \* history: blocks handed, reported failures, direct calls
               \* and cancellation so far
  last,        \* history: the call that returned in the last step
  once         \* history: the store as the last digested block left it

VARIABLES
  ops,         \* the operation collection, the records of one address:
               \* the (height, index) of each
  account,     \* the account collection: the height of the address's
               \* account record, NilHeight when it has none
  balances,    \* the balance collection, the records of the address:
               \* [currency, height, previousHeight, amount]
  send,        \* the send handler: its position, its WaitGroup and error
               \* channel, and the goroutine of each peer channel
  cache,       \* Handlers.cache: the stored responses [key, body, expire]
  rg,          \* Handlers.rg, the singleflight group: the calls in
               \* flight [key, dups]
  reqs,        \* per client: the request its handler is serving
  walks,       \* per direction: a client following next links
  asked,       \* the query the clients send: path, offset, reverse, limit
  scan,        \* history: the last range scan of the operation collection
  execs        \* history: the executions the singleflight group started,
               \* each with its result

haVars == << ops, account, balances, send, cache, rg, reqs, walks, asked, scan,
            execs >>

dbVars == << readonly, lastBlock, info, cols >>
diVars == << blockChan, calls, cancelled, loop, blk, locked, sessions,
             reports, errChanSet >>
histVars == << events, once >>
vars == << dbVars, diVars, histVars, last, haVars >>


(***************************************************************************)
(* The Database.  A method is an operator from the state of the store       *)
(* (a record db of lastBlock, info and cols) and the outcomes of its        *)
(* storage calls to the state it leaves and the error it returns.           *)
(***************************************************************************)
DB == [ lastBlock |-> lastBlock, info |-> info, cols |-> cols ]

Ret(db, err) == [ db |-> db, err |-> err ]

\* slip: the field is assigned before SetInfo is known to have succeeded
setLastBlockEager(db, height, infoOk) ==
  IF ~infoOk
    THEN Ret([ db EXCEPT !.lastBlock = height ], TRUE)
    ELSE Ret([ db EXCEPT !.info = [ found |-> TRUE, height |-> height ],
                         !.lastBlock = height ], FALSE)

\* Database.setLastBlock: SetInfo first, the field only when SetInfo succeeded
setLastBlock(db, height, infoOk) ==
  IF ~infoOk
    THEN Ret(db, TRUE)
    ELSE Ret([ db EXCEPT !.info = [ found |-> TRUE, height |-> height ],
                         !.lastBlock = height ], FALSE)

\* slip: the marker is written whatever the height
SetLastBlockUnguarded(db, ro, height, infoOk) ==
  IF ro THEN Ret(db, TRUE) ELSE setLastBlock(db, height, infoOk)

\* Database.SetLastBlock
SetLastBlock(db, ro, height, infoOk) ==
  IF ro THEN Ret(db, TRUE)
  ELSE IF height <= db.lastBlock THEN Ret(db, FALSE)
  ELSE setLastBlock(db, height, infoOk)

\* the collections after the first n Drop calls of clean() succeeded
Dropped(c, n) ==
  [ col \in Collections |->
      IF \E i \in 1..n : cleanCols[i] = col THEN {} ELSE c[col] ]

\* Database.New: a Database over a new session of the storage; st itself
\* is left as it is
New(db, ro, newOk) ==
  IF ro THEN Ret(db, TRUE) ELSE Ret(db, ~newOk)

\* Database.clean: failAt = 0 when no Drop fails, else the Drop that fails
clean(db, failAt, infoOk) ==
  IF failAt > 0
    THEN Ret([ db EXCEPT !.cols = Dropped(db.cols, failAt - 1) ], TRUE)
    ELSE setLastBlock([ db EXCEPT !.cols = Dropped(db.cols, Len(cleanCols)) ],
                      NilHeight, infoOk)

\* the collections after the first n BulkWrite calls of cleanByHeight()
\* succeeded: DeleteMany {height: {$gte: height}}
Removed(c, height, n) ==
  [ col \in Collections |->
      IF \E i \in 1..n : cleanByHeightCols[i] = col
        THEN { r \in c[col] : ~(r >= height) }
        ELSE c[col] ]

\* slip: the marker is set to height + 1 instead of height - 1
cleanByHeightPlus(db, height, failAt, infoOk) ==
  IF height <= PreGenesisHeight + 1
    THEN clean(db, failAt, infoOk)
  ELSE IF failAt > 0
    THEN Ret([ db EXCEPT !.cols = Removed(db.cols, height, failAt - 1) ], TRUE)
  ELSE setLastBlock(
         [ db EXCEPT !.cols = Removed(db.cols, height, Len(cleanByHeightCols)) ],
         height + 1, infoOk)

\* Database.cleanByHeight
cleanByHeight(db, height, failAt, infoOk) ==
  IF height <= PreGenesisHeight + 1
    THEN clean(db, failAt, infoOk)
  ELSE IF failAt > 0
    THEN Ret([ db EXCEPT !.cols = Removed(db.cols, height, failAt - 1) ], TRUE)
  ELSE setLastBlock(
         [ db EXCEPT !.cols = Removed(db.cols, height, Len(cleanByHeightCols)) ],
         height - 1, infoOk)

\* the storage calls of clean / cleanByHeight that can be made to fail
FailPoints(height) ==
  IF height <= PreGenesisHeight + 1
    THEN 0..Len(cleanCols)
    ELSE 0..Len(cleanByHeightCols)

\* slip: Clean does not look at the readonly flag
CleanUnchecked(db, ro, failAt, infoOk) == clean(db, failAt, infoOk)

\* Database.Clean
Clean(db, ro, failAt, infoOk) ==
  IF ro THEN Ret(db, TRUE) ELSE clean(db, failAt, infoOk)

\* slip: the rollback starts one height too high
CleanByHeightAbove(db, ro, height, failAt, infoOk) ==
  IF ro THEN Ret(db, TRUE) ELSE cleanByHeight(db, height + 1, failAt, infoOk)

\* Database.CleanByHeight
CleanByHeight(db, ro, height, failAt, infoOk) ==
  IF ro THEN Ret(db, TRUE) ELSE cleanByHeight(db, height, failAt, infoOk)

\* loadLastBlock: (height, found) of the info document
loadLastBlock(db) ==
  IF db.info.found
    THEN [ h |-> db.info.height, found |-> TRUE ]
    ELSE [ h |-> NilHeight, found |-> FALSE ]

\* slip: the rollback starts at the marker instead of the height above it
InitializeAtMarker(db, ro, loadOk, indexOk, failAt, infoOk) ==
  IF ~loadOk THEN Ret(db, TRUE)
  ELSE LET l == loadLastBlock(db) IN
    IF ~l.found THEN Ret([ db EXCEPT !.lastBlock = NilHeight ], FALSE)
    ELSE LET d == [ db EXCEPT !.lastBlock = l.h ] IN
      IF ro THEN Ret(d, FALSE)
      ELSE IF ~indexOk THEN Ret(d, TRUE)
      ELSE cleanByHeight(d, l.h, failAt, infoOk)

\* Database.Initialize
Initialize(db, ro, loadOk, indexOk, failAt, infoOk) ==
  IF ~loadOk THEN Ret(db, TRUE)
  ELSE LET l == loadLastBlock(db) IN
    IF ~l.found THEN Ret([ db EXCEPT !.lastBlock = NilHeight ], FALSE)
    ELSE LET d == [ db EXCEPT !.lastBlock = l.h ] IN
      IF ro THEN Ret(d, FALSE)
      ELSE IF ~indexOk THEN Ret(d, TRUE)
      ELSE cleanByHeight(d, l.h + 1, failAt, infoOk)

(***************************************************************************)
(* The query side at rest: no record of the address, an empty cache, no    *)
(* call in flight, no request being served.                               *)
(***************************************************************************)
Clients == { "c1", "c2" }

\* a Go string: the sequence of its characters
EmptyString == << >>

\* the outcome of a query: err is "none", "notfound" (util.NotFoundError)
\* or "internal" (any other error); b is the document, filled whether the
\* page is full
NoResult == [ err |-> "none", b |-> << >>, filled |-> FALSE ]

\* a request not yet made: pc is the handler's position, call the
\* execution it got its result from (0: none), v and shared what
\* singleflight's Do returned, began and entered the number of executions
\* completed when it was made and when it called Do, status and body the
\* response, expire the expiration set on the response writer (0: none),
\* limit the limit of its query (parseLimitQuery: -1 when it has none)
NoReq == [ pc |-> "idle", call |-> 0, v |-> NoResult, shared |-> FALSE,
           began |-> 0, entered |-> 0, status |-> 0, body |-> << >>,
           expire |-> 0, limit |-> -1 ]

NoQuery == [ path |-> "none", offset |-> EmptyString, reverse |-> FALSE,
             limit |-> -1 ]
NoWalk == [ started |-> FALSE ]
NoScan == [ fn |-> "none" ]

\* the peer channels handed to newSendHandler
NumChans == 2
Chans == 1..NumChans

\* the send handler before a call: pc is its position, started the number
\* of goroutines launched, wg the WaitGroup's counter, errchan the values
\* buffered in the error channel, chan the goroutine of each peer channel
\* (pc and out, the outcome of its SendSeal), err whether the handler
\* returned an error, signed whether it got to a signed and valid seal,
\* together whether all the goroutines have been sending at one moment
NoSend == [ pc |-> "idle", started |-> 0, wg |-> 0, errchan |-> << >>,
            chan |-> [ i \in Chans |-> [ pc |-> "none", out |-> "none" ] ],
            err |-> FALSE, signed |-> FALSE, together |-> FALSE ]

HandlersIdle ==
  /\ ops = {}
  /\ account = NilHeight
  /\ balances = {}
  /\ send = NoSend
  /\ cache = {}
  /\ rg = {}
  /\ reqs = [ c \in Clients |-> NoReq ]
  /\ walks = [ reverse \in BOOLEAN |-> NoWalk ]
  /\ asked = NoQuery
  /\ scan = NoScan
  /\ execs = << >>

(***************************************************************************)
(* Initial state: a Database over an empty storage and a started Digester.  *)
(***************************************************************************)
NoCall == [ op |-> "none", h |-> NilHeight, err |-> FALSE, stage |-> "none",
            pre |-> NilHeight, arg |-> << >> ]

NoOnce == [ valid |-> FALSE, h |-> NilHeight, n |-> 0, rolled |-> FALSE,
            db |-> [ lastBlock |-> NilHeight,
                     info |-> [ found |-> FALSE, height |-> NilHeight ],
                     cols |-> [ col \in Collections |-> {} ] ] ]

InitWith(ro, ec) ==
  /\ readonly = ro
  /\ lastBlock = NilHeight
  /\ info = [ found |-> FALSE, height |-> NilHeight ]
  /\ cols = [ col \in Collections |-> {} ]
  /\ blockChan = << >>
  /\ calls = [ p \in Producers |-> << >> ]
  /\ cancelled = FALSE
  /\ loop = "select"
  /\ blk = NoBlock
  /\ locked = FALSE
  /\ sessions = {}
  /\ reports = << >>
  /\ errChanSet = ec
  /\ events = 0
  /\ last = NoCall
  /\ once = NoOnce

\* a writable Database and NewDigester(st, nil)
Init == InitWith(FALSE, FALSE) /\ HandlersIdle

\* the storage after the blocks up to height k were digested (by the
\* process that writes it); k = NilHeight: nothing was digested
StoredUpTo(k) ==
  [ lastBlock |-> NilHeight,
    info |-> [ found |-> k # NilHeight, height |-> k ],
    cols |-> [ col \in Collections |-> { h \in Heights : h <= k } ] ]

\* NewReadonlyDatabase over a storage that another process has written, and
\* NewDigester(st, nil)
InitReadonly ==
  \E k \in Heights \cup { NilHeight } :
    /\ readonly = TRUE
    /\ lastBlock = StoredUpTo(k).lastBlock
    /\ info = StoredUpTo(k).info
    /\ cols = StoredUpTo(k).cols
    /\ blockChan = << >>
    /\ calls = [ p \in Producers |-> << >> ]
    /\ cancelled = FALSE
    /\ loop = "select"
    /\ blk = NoBlock
    /\ locked = FALSE
    /\ sessions = {}
    /\ reports = << >>
    /\ errChanSet = FALSE
    /\ events = 0
    /\ last = NoCall
    /\ once = NoOnce
    /\ HandlersIdle

\* a writable Database and NewDigester(st, errChan), errChan nil or not
InitErrChan == \E ec \in BOOLEAN : InitWith(FALSE, ec) /\ HandlersIdle

\* the outcomes a call can be given.  A failed DigestBlock adds a report
\* when an error channel is set, so it then needs an event left; without a
\* channel a call may fail any number of times
Outcomes == IF errChanSet /\ events >= MaxEvents THEN { TRUE } ELSE BOOLEAN
FailAts(height) == IF events < MaxEvents THEN FailPoints(height) ELSE { 0 }
\* SetInfo is reached only when no earlier storage call failed
InfoOks(failAt) == IF failAt = 0 THEN Outcomes ELSE { TRUE }

\* the state of the store becomes r.db
Store(r) ==
  /\ lastBlock' = r.db.lastBlock
  /\ info' = r.db.info
  /\ cols' = r.db.cols
  /\ UNCHANGED readonly

Called(op, h, r) ==
  [ op |-> op, h |-> h, err |-> r.err, stage |-> "none", pre |-> lastBlock,
    arg |-> << >> ]

\* no collection of c holds a record above height
Highest(c, height) == \A col \in Collections : \A r \in c[col] : r <= height

\* history: the snapshot once survives a call that leaves the store as it
\* is, and a rollback (to the height of its block, or by Initialize) made
\* while no DigestBlock is in progress
OnceKept(r, rollback) ==
  IF ~once.valid \/ r.db = DB THEN once
  ELSE IF rollback /\ sessions = {} THEN [ once EXCEPT !.rolled = TRUE ]
  ELSE NoOnce

(***************************************************************************)
(* Direct calls of the Database's methods (by the node, outside Digester).  *)
(* Each holds the Database's lock from start to end.                        *)
(***************************************************************************)
CallSetLastBlock(h) ==
  /\ events < MaxEvents
  /\ \E infoOk \in Outcomes :
       LET r == SetLastBlock(DB, readonly, h, infoOk) IN
         /\ Store(r)
         /\ last' = Called("SetLastBlock", h, r)
         /\ once' = OnceKept(r, FALSE)
  /\ events' = events + 1
  /\ UNCHANGED diVars

CallNew ==
  /\ events < MaxEvents
  /\ \E newOk \in Outcomes :
       LET r == New(DB, readonly, newOk) IN
         /\ Store(r)
         /\ last' = Called("New", NilHeight, r)
         /\ once' = OnceKept(r, FALSE)
  /\ events' = events + 1
  /\ UNCHANGED diVars

CallClean ==
  /\ events < MaxEvents
  /\ \E failAt \in FailAts(NilHeight) : \E infoOk \in InfoOks(failAt) :
       LET r == Clean(DB, readonly, failAt, infoOk) IN
         /\ Store(r)
         /\ last' = Called("Clean", NilHeight, r)
         /\ once' = OnceKept(r, FALSE)
  /\ events' = events + 1
  /\ UNCHANGED diVars

CallCleanByHeight(h) ==
  /\ events < MaxEvents
  /\ \E failAt \in FailAts(h) : \E infoOk \in InfoOks(failAt) :
       LET r == CleanByHeight(DB, readonly, h, failAt, infoOk) IN
         /\ Store(r)
         /\ last' = Called("CleanByHeight", h, r)
         /\ once' = OnceKept(r, h = once.h)
  /\ events' = events + 1
  /\ UNCHANGED diVars

CallInitialize ==
  /\ events < MaxEvents
  /\ \E loadOk \in Outcomes :
     \E indexOk \in (IF loadOk /\ info.found THEN Outcomes ELSE { TRUE }) :
     \E failAt \in (IF loadOk /\ info.found /\ indexOk
                      THEN FailAts(info.height + 1) ELSE { 0 }) :
     \E infoOk \in InfoOks(failAt) :
       LET r == Initialize(DB, readonly, loadOk, indexOk, failAt, infoOk) IN
         /\ Store(r)
         /\ last' = Called("Initialize", NilHeight, r)
         /\ once' = OnceKept(r, TRUE)
  /\ events' = events + 1
  /\ UNCHANGED diVars

(***************************************************************************)
(* Digester.Digest: sort.Slice by height, then one channel send per block.  *)
(***************************************************************************)
RECURSIVE Insert(_, _)
Insert(sorted, b) ==
  IF sorted = << >> THEN << b >>
  ELSE IF b < Head(sorted) THEN << b >> \o sorted
  ELSE << Head(sorted) >> \o Insert(Tail(sorted), b)

\* slip: the slice is sent in the order it was given
SortByHeightNone(blocks) == blocks

RECURSIVE SortByHeight(_)
SortByHeight(blocks) ==
  IF blocks = << >> THEN << >>
  ELSE Insert(SortByHeight(Tail(blocks)), Head(blocks))

Slices == UNION { [ 1..n -> Heights ] : n \in 1..(MaxEvents - events) }

\* producer p calls Digest(blocks): the sort
Digest(p, blocks) ==
  /\ calls[p] = << >>
  /\ events + Len(blocks) <= MaxEvents
  /\ calls' = [ calls EXCEPT ![p] = SortByHeight(blocks) ]
  /\ events' = events + Len(blocks)
  /\ UNCHANGED << dbVars, blockChan, cancelled, loop, blk, locked, sessions,
                  reports, errChanSet, once >>
  /\ last' = [ NoCall EXCEPT !.op = "Digest", !.arg = blocks ]

\* slip: a block that finds the channel full is dropped (a send with default)
SendOrDrop(p) ==
  /\ calls[p] # << >>
  /\ blockChan' = IF Len(blockChan) < QueueCap
                    THEN Append(blockChan, Head(calls[p]))
                    ELSE blockChan
  /\ calls' = [ calls EXCEPT ![p] = Tail(calls[p]) ]
  /\ UNCHANGED << dbVars, cancelled, loop, blk, locked, sessions, reports,
                  errChanSet, histVars >>
  /\ last' = NoCall

\* di.blockChan <- blk: blocks while the channel is full
Send(p) ==
  /\ calls[p] # << >>
  /\ Len(blockChan) < QueueCap
  /\ blockChan' = Append(blockChan, Head(calls[p]))
  /\ calls' = [ calls EXCEPT ![p] = Tail(calls[p]) ]
  /\ UNCHANGED << dbVars, cancelled, loop, blk, locked, sessions, reports,
                  errChanSet, histVars >>
  /\ last' = NoCall

(***************************************************************************)
(* Digester.start: the consumption loop.                                    *)
(***************************************************************************)
\* the context of the daemon is cancelled
Cancel ==
  /\ ~cancelled
  /\ events < MaxEvents
  /\ cancelled' = TRUE
  /\ events' = events + 1
  /\ UNCHANGED << dbVars, blockChan, calls, loop, blk, locked, sessions,
                  reports, errChanSet, once >>
  /\ last' = NoCall

\* case <-ctx.Done()
Stop ==
  /\ loop = "select"
  /\ cancelled
  /\ loop' = "stopped"
  /\ UNCHANGED << dbVars, blockChan, calls, cancelled, blk, locked, sessions,
                  reports, errChanSet, histVars >>
  /\ last' = NoCall

\* slip: the block is digested in a goroutine of its own (go DigestBlock)
\* and the loop selects again at once
DequeueGo ==
  /\ loop = "select"
  /\ blockChan # << >>
  /\ blockChan' = Tail(blockChan)
  /\ sessions' = sessions \cup { [ blk |-> Head(blockChan), step |-> "new" ] }
  /\ UNCHANGED << dbVars, calls, cancelled, loop, blk, locked, reports,
                  errChanSet, histVars >>
  /\ last' = NoCall

\* case blk := <-di.blockChan
Dequeue ==
  /\ loop = "select"
  /\ blockChan # << >>
  /\ blk' = Head(blockChan)
  /\ blockChan' = Tail(blockChan)
  /\ loop' = "retry"
  /\ UNCHANGED << dbVars, calls, cancelled, locked, sessions, reports,
                  errChanSet, histVars >>
  /\ last' = NoCall

\* slip: a report is sent for a failed attempt only
ReportFailures(err, height) ==
  IF errChanSet /\ err
    THEN Append(reports, [ err |-> err, height |-> height ])
    ELSE reports

\* the goroutine sending NewDigestError(err, height) on errChan: nothing
\* receives from errChan here, so reports holds every send still pending
Report(err, height) ==
  IF errChanSet
    THEN Append(reports, [ err |-> err, height |-> height ])
    ELSE reports

\* slip: the failed block is given up and the loop selects again
FailedGiveUp(height, stage) ==
  /\ locked' = FALSE
  /\ reports' = Report(TRUE, height)
  /\ loop' = "select"
  /\ blk' = NoBlock
  /\ events' = IF errChanSet THEN events + 1 ELSE events
  /\ last' = [ op |-> "DigestBlock", h |-> height, err |-> TRUE,
               stage |-> stage, pre |-> lastBlock, arg |-> << >> ]
  /\ UNCHANGED << blockChan, calls, cancelled, errChanSet, once >>

\* DigestBlock returned an error inside the callback of util.Retry: the
\* error is reported and, the retry being unlimited, the callback runs again
\* after the interval
Failed(height, stage) ==
  /\ locked' = FALSE
  /\ reports' = Report(TRUE, height)
  /\ loop' = "retry"
  /\ events' = IF errChanSet THEN events + 1 ELSE events
  /\ last' = [ op |-> "DigestBlock", h |-> height, err |-> TRUE,
               stage |-> stage, pre |-> lastBlock, arg |-> << >> ]
  /\ UNCHANGED << blk, blockChan, calls, cancelled, errChanSet, once >>

\* slip: the report is sent by the loop itself (no goroutine), which then
\* waits for a receiver
DigestedSync(height) ==
  /\ locked' = FALSE
  /\ reports' = Report(FALSE, height)
  /\ loop' = IF errChanSet THEN "sending" ELSE "select"
  /\ blk' = NoBlock
  /\ last' = [ op |-> "DigestBlock", h |-> height, err |-> FALSE,
               stage |-> "done", pre |-> lastBlock, arg |-> << >> ]
  /\ UNCHANGED << blockChan, calls, cancelled, errChanSet, events >>

\* DigestBlock returned nil: util.Retry returns nil, the outcome is reported
\* and the loop selects again
Digested(height) ==
  /\ locked' = FALSE
  /\ reports' = Report(FALSE, height)
  /\ loop' = "select"
  /\ blk' = NoBlock
  /\ last' = [ op |-> "DigestBlock", h |-> height, err |-> FALSE,
               stage |-> "done", pre |-> lastBlock, arg |-> << >> ]
  /\ UNCHANGED << blockChan, calls, cancelled, errChanSet, events >>

\* Digester.digest takes the lock and DigestBlock calls NewBlockSession,
\* which refuses a read-only Database
Enter ==
  /\ loop = "retry"
  /\ ~locked
  /\ IF readonly
       THEN /\ errChanSet => events < MaxEvents
            /\ Failed(blk, "new")
            /\ UNCHANGED << dbVars, sessions >>
       ELSE /\ locked' = TRUE
            /\ loop' = "digest"
            /\ sessions' = sessions \cup { [ blk |-> blk, step |-> "new" ] }
            /\ UNCHANGED << dbVars, blk, blockChan, calls, cancelled, reports,
                            errChanSet, histVars >>
            /\ last' = NoCall

\* bs.Prepare(): derives the models of the block, no storage call
Prepare(s) ==
  /\ s \in sessions
  /\ s.step = "new"
  /\ \E ok \in Outcomes :
       IF ok
         THEN /\ sessions' = (sessions \ { s }) \cup
                   { [ s EXCEPT !.step = "prepared" ] }
              /\ UNCHANGED << dbVars, blk, blockChan, calls, cancelled, loop,
                              locked, reports, errChanSet, histVars >>
              /\ last' = NoCall
         ELSE /\ sessions' = sessions \ { s }
              /\ Failed(s.blk, "prepare")
              /\ UNCHANGED dbVars

\* the collections after the models of the block were written (upserts)
Written(c, height) == [ col \in Collections |-> c[col] \cup { height } ]

\* bs.Commit(ctx): one atomic batch
Commit(s) ==
  /\ s \in sessions
  /\ s.step = "prepared"
  /\ \E ok \in Outcomes :
       IF ok
         THEN /\ cols' = Written(cols, s.blk)
              /\ sessions' = (sessions \ { s }) \cup
                   { [ s EXCEPT !.step = "committed" ] }
              /\ once' = IF once.valid /\ once.h # s.blk /\ cols' # cols
                           THEN NoOnce ELSE once
              /\ UNCHANGED << readonly, lastBlock, info, blk, blockChan, calls,
                              cancelled, loop, locked, reports, errChanSet,
                              events >>
              /\ last' = NoCall
         ELSE /\ sessions' = sessions \ { s }
              /\ Failed(s.blk, "commit")
              /\ UNCHANGED dbVars

\* history: the snapshot taken when block height has been digested and is
\* the highest block of the store; kept when the same block is digested again
OnceDigested(db, height) ==
  IF once.valid /\ once.h = height THEN [ once EXCEPT !.n = 2 ]
  ELSE IF /\ db.lastBlock = height
          /\ Highest(db.cols, height)
          /\ \A col \in Collections : height \in db.cols[col]
    THEN [ valid |-> TRUE, h |-> height, n |-> 1, rolled |-> FALSE, db |-> db ]
  ELSE NoOnce

\* slip: SetLastBlock is called without waiting for the outcome of Commit
AdvanceEarly(s) ==
  /\ s \in sessions
  /\ s.step \in { "prepared", "committed" }
  /\ \E infoOk \in Outcomes :
       LET r == SetLastBlock(DB, readonly, s.blk, infoOk) IN
         /\ Store(r)
         /\ sessions' = sessions \ { s }
         /\ IF r.err
              THEN Failed(s.blk, "setlast")
              ELSE Digested(s.blk) /\ once' = OnceDigested(r.db, s.blk)

\* return st.SetLastBlock(blk.Height())
Advance(s) ==
  /\ s \in sessions
  /\ s.step = "committed"
  /\ \E infoOk \in Outcomes :
       LET r == SetLastBlock(DB, readonly, s.blk, infoOk) IN
         /\ Store(r)
         /\ sessions' = sessions \ { s }
         /\ IF r.err
              THEN Failed(s.blk, "setlast")
              ELSE Digested(s.blk) /\ once' = OnceDigested(r.db, s.blk)

Next ==
  \/ \E h \in Heights : CallSetLastBlock(h) /\ UNCHANGED haVars
  \/ CallClean /\ UNCHANGED haVars
  \/ \E h \in Heights : CallCleanByHeight(h) /\ UNCHANGED haVars
  \/ CallInitialize /\ UNCHANGED haVars
  \/ CallNew /\ UNCHANGED haVars
  \/ \E p \in Producers, blocks \in Slices : Digest(p, blocks) /\ UNCHANGED haVars
  \/ \E p \in Producers : Send(p) /\ UNCHANGED haVars
  \/ Cancel /\ UNCHANGED haVars
  \/ Stop /\ UNCHANGED haVars
  \/ Dequeue /\ UNCHANGED haVars
  \/ Enter /\ UNCHANGED haVars
  \/ \E s \in sessions : Prepare(s) /\ UNCHANGED haVars
  \/ \E s \in sessions : Commit(s) /\ UNCHANGED haVars
  \/ \E s \in sessions : Advance(s) /\ UNCHANGED haVars

Spec == Init /\ [][Next]_vars

\* the same program over a writable or a read-only Database
SpecModes == (Init \/ InitReadonly) /\ [][Next]_vars

\* the same program with or without an error channel
SpecErrChan == InitErrChan /\ [][Next]_vars

\* the steps of the goroutine running Digester.start
LoopNext ==
  /\ \/ Stop
     \/ Dequeue
     \/ Enter
     \/ \E s \in sessions : Prepare(s)
     \/ \E s \in sessions : Commit(s)
     \/ \E s \in sessions : Advance(s)
  /\ UNCHANGED haVars

\* the goroutine of Digester.start is scheduled as long as it can run
FairSpec == Init /\ [][Next]_vars /\ WF_vars(LoopNext)

(***************************************************************************)
(* Properties.                                                              *)
(***************************************************************************)
\* the step is the return of a direct call of the Database method op
CallStep(op) == events' = events + 1 /\ last'.op = op

\* the step is the return of a direct call of some Database method
DirectStep == \E op \in { "SetLastBlock", "Clean", "CleanByHeight",
                          "Initialize", "New" } : CallStep(op)

\* the step is the return of DigestBlock with an error
FailStep == events' = (IF errChanSet THEN events + 1 ELSE events)
            /\ last'.op = "DigestBlock" /\ last'.err

\* the step is the return of DigestBlock without an error
DoneStep == events' = events /\ loop = "digest" /\ loop' = "select"
            /\ last'.op = "DigestBlock" /\ ~last'.err

\* the step is the successful bs.Commit of session s
CommitStep(s) == s \in sessions /\ s.step = "prepared"
                 /\ [ s EXCEPT !.step = "committed" ] \in sessions'

Max(a, b) == IF a >= b THEN a ELSE b

\* the blocks handed to Digest and not yet taken by the loop
Waiting == Range(blockChan) \cup UNION { Range(calls[p]) : p \in Producers }

\* C1: no record of any of the five collections has a height greater than
\* the Last-Digested-Height marker, in every reachable state.
C1_NoRecordAboveMarker ==
  \A col \in Collections : \A r \in cols[col] : r <= lastBlock

\* C2: no state is reachable in which the records a DigestBlock has written
\* for its block are visible while the marker has not been advanced to the
\* block's height.
C2_RecordsOnlyWithMarker ==
  \A s \in sessions :
    (s.step = "committed" /\ \E col \in Collections : s.blk \in cols[col])
      => lastBlock >= s.blk

\* C3: a block is never committed while a block of smaller height that was
\* handed to the Digester is still waiting to be digested.
C3_AscendingCommits ==
  [][ \A s \in sessions :
        CommitStep(s) => \A w \in Waiting : w >= s.blk ]_vars

\* C4: at most one DigestBlock is in progress at any moment, whatever the
\* producers calling Digest do.
C4_SingleWriter ==
  /\ Cardinality(sessions) <= 1
  /\ sessions # {} => locked /\ loop = "digest"

\* C4 witness: a DigestBlock is in progress while another block, handed by
\* a producer, waits in the channel.
C4_Witness ==
  /\ Cardinality(sessions) = 1
  /\ blockChan # << >>

\* C5 as claimed: right after DigestBlock returned success for a block, the
\* marker equals the height of the block.
C5_MarkerIsBlockHeight ==
  (last.op = "DigestBlock" /\ ~last.err) => lastBlock = last.h

\* C5 amended: right after DigestBlock returned success for a block, the
\* marker is the greater of the marker before and the height of the block,
\* in memory and persisted.
C5_MarkerIsMaxOfBoth ==
  (last.op = "DigestBlock" /\ ~last.err)
    => /\ lastBlock = Max(last.pre, last.h)
       /\ info = [ found |-> TRUE, height |-> Max(last.pre, last.h) ]

\* C5 witness: DigestBlock returned success for a block below the marker.
C5_Witness ==
  last.op = "DigestBlock" /\ ~last.err /\ last.pre > last.h

\* C6: the marker (in memory or persisted) decreases only in a step of
\* CleanByHeight or Clean; SetLastBlock, DigestBlock and Initialize never
\* lower it.
C6_MarkerMonotone ==
  [][ (lastBlock' < lastBlock \/ info'.height < info.height)
        => (CallStep("Clean") \/ CallStep("CleanByHeight")) ]_vars

\* C6 witness: SetLastBlock was called with a height below the marker and
\* the marker is still above that height.
C6_Witness ==
  last.op = "SetLastBlock" /\ ~last.err /\ last.h < lastBlock

\* C7: on a writable store SetLastBlock(h) with h <= marker returns success
\* and leaves the in-memory and the persisted marker unchanged; with
\* h > marker a successful call sets both to h (and a call whose persistence
\* fails returns the error and changes neither).
C7_SetLastBlockEffect ==
  [][ CallStep("SetLastBlock") =>
        IF last'.h <= lastBlock
          THEN ~last'.err /\ lastBlock' = lastBlock /\ info' = info
        ELSE IF last'.err
          THEN lastBlock' = lastBlock /\ info' = info
        ELSE lastBlock' = last'.h
             /\ info' = [ found |-> TRUE, height |-> last'.h ] ]_vars

\* C7 witness: SetLastBlock(h) returned success with h equal to the marker,
\* which had been set by an earlier call.
C7_Witness ==
  /\ last.op = "SetLastBlock" /\ ~last.err
  /\ last.h = last.pre /\ lastBlock = last.h /\ info.height = last.h

\* C8: when Prepare or Commit fails DigestBlock returns the error and that
\* step leaves the marker as it was; DigestBlock changes the marker only in
\* the step after a successful Commit; the batch is written only for a
\* session whose Prepare succeeded.
C8_MarkerOnlyAfterCommit ==
  [][ /\ (FailStep /\ last'.stage \in { "prepare", "commit" })
          => lastBlock' = lastBlock /\ info' = info /\ cols' = cols
      /\ (~DirectStep /\ (lastBlock' # lastBlock \/ info' # info))
          => \E s \in sessions :
               s.step = "committed" /\ s \notin sessions'
               /\ lastBlock' = s.blk /\ ~last'.err
      /\ (~DirectStep /\ cols' # cols)
          => \E s \in sessions : CommitStep(s) ]_vars

\* C8 witness: Commit failed, DigestBlock returned the error, and the
\* marker is the one before the attempt.
C8_Witness ==
  /\ last.op = "DigestBlock" /\ last.err /\ last.stage = "commit"
  /\ lastBlock = last.pre /\ sessions = {}

C10_RetrySameBlock ==
  [][ /\ FailStep => /\ loop' = "retry" /\ blk' = blk /\ blk = last'.h
                     /\ blockChan' = blockChan
      /\ (blk # NoBlock /\ blk' # blk) => DoneStep /\ last'.h = blk
      /\ (Len(blockChan') < Len(blockChan))
           => loop = "select" /\ blk = NoBlock ]_vars

\* C10 witness: DigestBlock failed for the dequeued block while a later
\* block waits in the channel; the loop is about to retry the same block.
C10_Witness ==
  /\ last.op = "DigestBlock" /\ last.err
  /\ loop = "retry" /\ blk = last.h /\ blockChan # << >>

\* the loop of Digester.start is not blocked: at its position it has a step
LoopCanStep ==
  CASE loop = "select" -> /\ (blockChan # << >> => ENABLED Dequeue)
                          /\ (cancelled => ENABLED Stop)
    [] loop = "retry" -> ENABLED Enter
    [] loop = "digest" -> ENABLED (\E s \in sessions :
                                     Prepare(s) \/ Commit(s) \/ Advance(s))
    [] loop = "stopped" -> TRUE
    [] OTHER -> FALSE

\* C11: with an error channel every DigestBlock attempt adds exactly one
\* report carrying the height of the block, with an error for a failed
\* attempt and without for the successful one, and no other step adds or
\* removes a report; without an error channel no report is ever made.
C11_OneReportPerAttempt ==
  [][ /\ IF FailStep \/ DoneStep
            THEN reports' =
                   IF errChanSet
                     THEN Append(reports, [ err |-> last'.err,
                                            height |-> last'.h ])
                     ELSE reports
            ELSE reports' = reports
      /\ (~errChanSet => reports' = << >>) ]_vars

\* C11 witness: a block failed once and was then digested; the channel was
\* given the report of the failure and then the report of the success.
C11_Witness ==
  /\ errChanSet /\ Len(reports) = 2
  /\ reports[1].err /\ ~reports[2].err
  /\ reports[1].height = reports[2].height
  /\ last.op = "DigestBlock" /\ ~last.err /\ last.h = reports[2].height

\* C12: while reports wait on the error channel, which nothing receives
\* from, the loop is never blocked: it can dequeue, enter and finish the
\* digestion of the following blocks.
C12_ReportsNeverBlock ==
  (errChanSet /\ reports # << >>) => LoopCanStep

\* C12 witness: a following block was dequeued and digested while the
\* report of an earlier block was still waiting on the error channel.
C12_Witness ==
  /\ errChanSet /\ Len(reports) >= 2
  /\ last.op = "DigestBlock" /\ ~last.err
  /\ reports[1].height # last.h

\* C13: once the context is cancelled the loop of Digester.start
\* eventually exits.
C13_CancelLeadsToExit == cancelled ~> (loop = "stopped")

\* the number of blocks of height h in the sequence
Count(seq, h) == Cardinality({ i \in 1..Len(seq) : seq[i] = h })

\* the number of blocks of height h handed to Digest and not yet taken by
\* the loop: those a Digest call still has to send and those in the channel
Pending(h) ==
  Count(blockChan, h)
    + Cardinality({ pi \in Producers \X (1..MaxEvents) :
                      /\ pi[2] <= Len(calls[pi[1]])
                      /\ calls[pi[1]][pi[2]] = h })

Ascending(seq) == \A i \in 1..(Len(seq) - 1) : seq[i] <= seq[i + 1]

\* the step of a Digest call that sends its next block on the channel
SendStep(p) ==
  /\ calls[p] # << >>
  /\ calls'[p] = Tail(calls[p])
  /\ blockChan' = Append(blockChan, Head(calls[p]))

\* C14: the channel never holds more than QueueCap blocks; a Digest call
\* sends its next block only when the channel has a free slot and keeps it
\* until then; every block handed to Digest is pending exactly once until
\* the loop takes it from the head of the channel: none is dropped and none
\* is enqueued twice.
C14_BoundedQueueNoLoss ==
  [][ /\ Len(blockChan') <= QueueCap
      /\ \A p \in Producers :
            (calls[p] # << >> /\ calls'[p] # calls[p])
              => Len(blockChan) < QueueCap /\ SendStep(p)
      /\ \A h \in Heights :
            LET d == Pending(h)' - Pending(h) IN
              IF last'.op = "Digest" THEN d = Count(last'.arg, h)
              ELSE \/ d = 0
                   \/ /\ d = -1
                      /\ blockChan # << >> /\ h = Head(blockChan)
                      /\ blockChan' = Tail(blockChan)
                      /\ loop = "select" /\ loop' = "retry" /\ blk' = h ]_vars

\* C14 witness: the channel is full, the loop is digesting, and a Digest
\* call waits with the block it could not send yet.
C14_Witness ==
  /\ Len(blockChan) = QueueCap
  /\ loop = "digest"
  /\ \E p \in Producers : calls[p] # << >>

\* C15: a Digest call sends the blocks of its slice in ascending order of
\* height, whatever the order of the slice: what it has to send is the
\* slice sorted, and it sends from the front.
C15_EnqueuedAscending ==
  [][ /\ last'.op = "Digest"
            => \E p \in Producers :
                 /\ calls[p] = << >>
                 /\ Len(calls'[p]) = Len(last'.arg)
                 /\ \A h \in Heights :
                      Count(calls'[p], h) = Count(last'.arg, h)
                 /\ Ascending(calls'[p])
      /\ \A p \in Producers :
            (calls[p] # << >> /\ calls'[p] # calls[p]) => SendStep(p) ]_vars

\* C15 witness: Digest was called with a slice in descending order and has
\* the blocks to send in ascending order.
C15_Witness ==
  /\ last.op = "Digest" /\ Len(last.arg) = 2
  /\ last.arg[1] > last.arg[2]
  /\ \E p \in Producers : calls[p] = << last.arg[2], last.arg[1] >>

\* C16: right after CleanByHeight(h) returned success no collection holds
\* a record of height h or above.
C16_NoRecordFromHeight ==
  (last.op = "CleanByHeight" /\ ~last.err)
    => \A col \in Collections : \A r \in cols[col] : r < last.h

\* C17 as claimed: right after CleanByHeight(h) returned success the
\* marker, in memory and persisted, is h - 1, for every h.
C17_MarkerIsHeightMinusOne ==
  (last.op = "CleanByHeight" /\ ~last.err)
    => /\ lastBlock = last.h - 1
       /\ info = [ found |-> TRUE, height |-> last.h - 1 ]

\* C17 amended: right after CleanByHeight(h) returned success the marker,
\* in memory and persisted, is h - 1 when h is above the genesis height 0,
\* and NilHeight when h is the genesis height.
C17_MarkerAfterCleanByHeight ==
  (last.op = "CleanByHeight" /\ ~last.err)
    => LET m == IF last.h > 0 THEN last.h - 1 ELSE NilHeight IN
         /\ lastBlock = m
         /\ info = [ found |-> TRUE, height |-> m ]

\* C17 witness: CleanByHeight(0) returned success on a store whose marker
\* had been advanced to a block, and the marker is NilHeight.
C17_Witness ==
  /\ last.op = "CleanByHeight" /\ ~last.err /\ last.h = 0
  /\ last.pre >= 0 /\ lastBlock = NilHeight

\* C18: CleanByHeight(h) is one unit: a call that returns an error has
\* removed no record and has left the marker, and a call that returns
\* success has removed the records of height h and above from every
\* collection and has set the marker, in memory and persisted.
C18_CleanByHeightIsOneUnit ==
  [][ CallStep("CleanByHeight") =>
        IF last'.err
          THEN cols' = cols /\ lastBlock' = lastBlock /\ info' = info
          ELSE /\ \A col \in Collections :
                    cols'[col] = { r \in cols[col] : r < last'.h }
               /\ info'.found /\ info'.height = lastBlock' ]_vars

\* C19: on a read-only Database every call of SetLastBlock, Clean,
\* CleanByHeight and New returns an error (the read-only error is the only
\* one such a call can return) and leaves the marker, in memory and
\* persisted, and every collection as they were.
C19_ReadonlyRefusesMutation ==
  [][ (readonly /\ \E op \in { "SetLastBlock", "Clean", "CleanByHeight",
                                "New" } : CallStep(op))
        => /\ last'.err
           /\ lastBlock' = lastBlock /\ info' = info /\ cols' = cols ]_vars

\* C19 witness: Clean was refused on a read-only Database whose storage
\* holds records and a persisted marker.
C19_Witness ==
  /\ readonly /\ last.op = "Clean" /\ last.err
  /\ info.found /\ \A col \in Collections : cols[col] # {}

\* C20: right after Initialize returned success on a writable store, with
\* no DigestBlock in progress, the in-memory marker is the persisted marker
\* (NilHeight when none is persisted) and no collection holds a record
\* above it.
C20_InitializeRecovers ==
  (last.op = "Initialize" /\ ~last.err /\ ~readonly /\ sessions = {})
    => /\ lastBlock = (IF info.found THEN info.height ELSE NilHeight)
       /\ \A col \in Collections : \A r \in cols[col] : r <= lastBlock

(***************************************************************************)
(* The Query Service: range scans of the operation collection.             *)
(***************************************************************************)
MaxIndex == 1       \* operations of a block have indexes 0..MaxIndex
MaxLimit == 2       \* limit queries range over -1..MaxLimit and maxLimit + 1

maxLimit == 50
GlobalItemsLimit == 10

Op(height, index) == [ height |-> height, index |-> index ]

Grid == { Op(h, i) : h \in Heights, i \in 0..MaxIndex }

\* one block holding more operations of the address than maxLimit
Bulk == { Op(0, i) : i \in 0..maxLimit }

Stores == (SUBSET Grid) \cup { Bulk }

Limits == (-1..MaxLimit) \cup { maxLimit + 1 }

Digits == << "0", "1", "2", "3", "4", "5", "6", "7", "8", "9" >>

\* fmt's %d of a value that is not negative
RECURSIVE FormatUint(_)
FormatUint(n) ==
  IF n < 10 THEN << Digits[n + 1] >>
  ELSE FormatUint(n \div 10) \o << Digits[(n % 10) + 1] >>

\* fmt's %d
FormatInt(n) == IF n < 0 THEN << "-" >> \o FormatUint(0 - n) ELSE FormatUint(n)

DigitValue(c) == (CHOOSE d \in 1..10 : Digits[d] = c) - 1

\* strconv.ParseUint(s, 10, 64): [err, n]
RECURSIVE ParseUint(_)
ParseUint(s) ==
  IF Len(s) = 0 \/ \E k \in 1..Len(s) : s[k] \notin Range(Digits)
  THEN [ err |-> TRUE, n |-> 0 ]
  ELSE IF Len(s) = 1 THEN [ err |-> FALSE, n |-> DigitValue(s[1]) ]
  ELSE [ err |-> FALSE,
         n |-> 10 * ParseUint(SubSeq(s, 1, Len(s) - 1)).n
               + DigitValue(s[Len(s)]) ]

\* base.NewHeightFromString: strconv.ParseInt(s, 10, 64)
NewHeightFromString(s) ==
  IF Len(s) > 0 /\ s[1] \in { "-", "+" }
  THEN LET u == ParseUint(Tail(s))
       IN [ err |-> u.err, n |-> IF s[1] = "-" THEN 0 - u.n ELSE u.n ]
  ELSE ParseUint(s)

\* strings.SplitN(s, ",", 2)
SplitN(s) ==
  IF \E k \in 1..Len(s) : s[k] = ","
  THEN LET k == CHOOSE k \in 1..Len(s) :
                  s[k] = "," /\ \A j \in 1..(k - 1) : s[j] # ","
       IN << SubSeq(s, 1, k - 1), SubSeq(s, k + 1, Len(s)) >>
  ELSE << s >>

parseOffset(s) ==
  LET n == SplitN(s)
      bad == [ err |-> TRUE, height |-> NilHeight, index |-> 0 ]
  IN IF Len(n) < 2 THEN bad
     ELSE LET h == NewHeightFromString(n[1])
              u == ParseUint(n[2])
          IN IF h.err \/ u.err THEN bad
             ELSE [ err |-> FALSE, height |-> h.n, index |-> u.n ]

buildOffset(height, index) ==
  FormatInt(height) \o << "," >> \o FormatUint(index)

\* the offsets a client may send: none, the offset of a record, one beyond
\* every record, and a malformed one
Offsets ==
  { EmptyString, << "x" >>, buildOffset(MaxHeight + 1, 0) }
    \cup { buildOffset(o.height, o.index) : o \in Grid }

\* the filter document: the records of the address, beyond the offset if
\* one is given
NoCursor == [ err |-> FALSE, cursor |-> "none", height |-> NilHeight,
              index |-> 0 ]

buildOperationsFilterByAddressInclusive(offset, reverse) ==
  IF Len(offset) > 0
  THEN LET o == parseOffset(offset)
       IN [ err |-> o.err,
            cursor |-> IF reverse THEN "lte" ELSE "gte",
            height |-> o.height, index |-> o.index ]
  ELSE NoCursor

buildOperationsFilterByAddress(offset, reverse) ==
  IF Len(offset) > 0
  THEN LET o == parseOffset(offset)
       IN [ err |-> o.err,
            cursor |-> IF reverse THEN "lt" ELSE "gt",
            height |-> o.height, index |-> o.index ]
  ELSE NoCursor

\* a record matches the filter document
Matches(filter, o) ==
  CASE filter.cursor = "none" -> TRUE
    [] filter.cursor = "lt" ->
         \/ o.height < filter.height
         \/ o.height = filter.height /\ o.index < filter.index
    [] filter.cursor = "gt" ->
         \/ o.height > filter.height
         \/ o.height = filter.height /\ o.index > filter.index
    [] filter.cursor = "lte" ->
         \/ o.height < filter.height
         \/ o.height = filter.height /\ o.index <= filter.index
    [] filter.cursor = "gte" ->
         \/ o.height > filter.height
         \/ o.height = filter.height /\ o.index >= filter.index
    [] filter.cursor = "height" -> o.height = filter.height

\* the sort document { height: sr, index: sr }: a comes before b
Before(a, b, sr) ==
  IF a.height # b.height
  THEN (IF sr = 1 THEN a.height < b.height ELSE a.height > b.height)
  ELSE (IF sr = 1 THEN a.index < b.index ELSE a.index > b.index)

\* every (height, index) a record can have, in the order of the sort
\* document
KeysAscending ==
  LET n == Max(MaxIndex, maxLimit) + 1
      m == (MaxHeight + 1) * n
  IN [ k \in 1..m |-> Op((k - 1) \div n, (k - 1) % n) ]

KeysDescending ==
  [ k \in 1..Len(KeysAscending) |->
      KeysAscending[Len(KeysAscending) + 1 - k] ]

Keys(sr) == IF sr = 1 THEN KeysAscending ELSE KeysDescending

SortAscending(S, sr) == SelectSeq(Keys(1), LAMBDA o : o \in S)

\* the records of S in the order of the sort document
Sort(S, sr) == SelectSeq(Keys(sr), LAMBDA o : o \in S)

Min(a, b) == IF a <= b THEN a ELSE b

\* the limit option of the find: 0 is no limit
SetLimit(limit) ==
  CASE limit <= 0 -> 0
    [] limit > maxLimit -> maxLimit
    [] OTHER -> limit

\* Client().Find over defaultColNameOperation with filter, sort and limit
Find(st, filter, sr, n) ==
  LET all == Sort({ o \in st : Matches(filter, o) }, sr)
  IN IF n = 0 THEN all ELSE SubSeq(all, 1, Min(n, Len(all)))

OperationsByAddress(st, reverse, offset, limit) ==
  LET filter == buildOperationsFilterByAddress(offset, reverse)
      sr == IF reverse THEN -1 ELSE 1
  IN IF filter.err THEN [ err |-> TRUE, out |-> << >> ]
     ELSE [ err |-> FALSE, out |-> Find(st, filter, sr, SetLimit(limit)) ]

\* the filters Operations is called with: every record, or those of a height
Filters ==
  { NoCursor }
    \cup { [ err |-> FALSE, cursor |-> "height", height |-> h, index |-> 0 ] :
             h \in Heights }

Operations(st, filter, reverse, limit) ==
  LET sr == IF reverse THEN -1 ELSE 1
  IN [ err |-> FALSE, out |-> Find(st, filter, sr, SetLimit(limit)) ]

\* a direct call of Database.OperationsByAddress
CallOperationsByAddress(offset, reverse, limit) ==
  /\ scan = NoScan
  /\ scan' = [ fn |-> "OperationsByAddress", offset |-> offset,
               reverse |-> reverse, limit |-> limit, filter |-> NoCursor,
               r |-> OperationsByAddress(ops, reverse, offset, limit) ]
  /\ UNCHANGED << ops, account, balances, send, cache, rg,
                  reqs, walks, asked, execs >>
  /\ UNCHANGED << dbVars, diVars, histVars, last >>

\* a direct call of Database.Operations
CallOperations(filter, reverse, limit) ==
  /\ scan = NoScan
  /\ scan' = [ fn |-> "Operations", offset |-> EmptyString,
               reverse |-> reverse, limit |-> limit, filter |-> filter,
               r |-> Operations(ops, filter, reverse, limit) ]
  /\ UNCHANGED << ops, account, balances, send, cache, rg,
                  reqs, walks, asked, execs >>
  /\ UNCHANGED << dbVars, diVars, histVars, last >>

\* the operation collection holds any records of the address
InitScan ==
  /\ InitWith(FALSE, FALSE)
  /\ ops \in Stores
  /\ account = NilHeight
  /\ balances = {}
  /\ send = NoSend
  /\ cache = {}
  /\ rg = {}
  /\ reqs = [ c \in Clients |-> NoReq ]
  /\ walks = [ reverse \in BOOLEAN |-> NoWalk ]
  /\ asked = NoQuery
  /\ scan = NoScan
  /\ execs = << >>

NextScan ==
  \/ \E offset \in Offsets, reverse \in BOOLEAN, limit \in Limits :
       CallOperationsByAddress(offset, reverse, limit)
  \/ \E filter \in Filters, reverse \in BOOLEAN, limit \in Limits :
       CallOperations(filter, reverse, limit)

\* one range scan of a Database, whatever its operation collection holds
SpecScan == InitScan /\ [][NextScan]_vars

(***************************************************************************)
(* The account-operations handler: the query it executes and the           *)
(* hypermedia document it renders.                                         *)
(***************************************************************************)
\* Handlers.itemsLimiter as NewHandlers sets it
defaultItemsLimiter == GlobalItemsLimit

\* a link of the document: the path with its offset and reverse queries
URL(offset, reverse) ==
  [ path |-> "account-operations", offset |-> offset, reverse |-> reverse ]

buildAccountOperationsHalFirst(vas, offset, reverse) ==
  LET self == IF reverse THEN URL(EmptyString, TRUE) ELSE URL(offset, FALSE)
  IN [ embedded |-> vas,
       links |-> [ self |-> self, account |-> "account",
                   next |-> URL(buildOffset(vas[1].height, vas[1].index),
                                reverse),
                   reverse |-> URL(EmptyString, ~reverse) ] ]

buildAccountOperationsHalNoNext(vas, offset, reverse) ==
  LET self == IF reverse THEN URL(EmptyString, TRUE) ELSE URL(offset, FALSE)
  IN [ embedded |-> vas,
       links |-> [ self |-> self, account |-> "account",
                   reverse |-> URL(EmptyString, ~reverse) ] ]

buildAccountOperationsHal(vas, offset, reverse) ==
  LET self == IF reverse THEN URL(EmptyString, TRUE) ELSE URL(offset, FALSE)
      nextoffset == IF Len(vas) > 0
                    THEN LET va == vas[Len(vas)]
                         IN buildOffset(va.height, va.index)
                    ELSE EmptyString
  IN IF Len(nextoffset) > 0
     THEN [ embedded |-> vas,
            links |-> [ self |-> self, account |-> "account",
                        next |-> URL(nextoffset, reverse),
                        reverse |-> URL(EmptyString, ~reverse) ] ]
     ELSE [ embedded |-> vas,
            links |-> [ self |-> self, account |-> "account",
                        reverse |-> URL(EmptyString, ~reverse) ] ]

\* a query that failed: the error and the detail of its problem document
Failure(err, detail) ==
  [ err |-> err, b |-> [ problem |-> detail ], filled |-> FALSE ]

handleAccountOperationsInGroupAnyPage(st, offset, l, reverse) ==
  LET limit == IF l < 0 THEN defaultItemsLimiter ELSE l
      r == OperationsByAddress(st, reverse, offset, limit)
  IN IF r.err THEN Failure("internal", "invalid offset")
     ELSE [ err |-> "none",
            b |-> buildAccountOperationsHal(r.out, offset, reverse),
            filled |-> Len(r.out) = limit ]

handleAccountOperationsInGroup(st, offset, l, reverse) ==
  LET limit == IF l < 0 THEN defaultItemsLimiter ELSE l
      r == OperationsByAddress(st, reverse, offset, limit)
  IN IF r.err THEN Failure("internal", "invalid offset")
     ELSE IF Len(r.out) < 1 THEN Failure("notfound", "operations not found")
     ELSE [ err |-> "none",
            b |-> buildAccountOperationsHal(r.out, offset, reverse),
            filled |-> Len(r.out) = limit ]

(***************************************************************************)
(* A client paging through the operations of the address, forward and then *)
(* in reverse, while blocks are digested.                                  *)
(***************************************************************************)
\* the page size the client takes a full page to have
Expected(l) == IF l < 0 THEN defaultItemsLimiter ELSE l

\* the client requests the next page: the offset is the one of the last
\* page's next link, the limit the one it asked for first
Follow(reverse) ==
  LET w == walks[reverse]
      offset == IF w.started THEN w.offset ELSE EmptyString
      items == IF w.started THEN w.items ELSE << >>
      stopped == w.started /\ w.stopped
  IN /\ ~(w.started /\ w.done)
     /\ reverse => (walks[FALSE].started /\ walks[FALSE].done)
     /\ \E r \in { handleAccountOperationsInGroup(ops, offset,
                                                   asked.limit, reverse) } :
          LET page == IF r.err = "none" THEN r.b.embedded ELSE << >>
              all == items \o page
              short == Len(page) < Expected(asked.limit)
              next == r.err = "none" /\ "next" \in DOMAIN r.b.links
          IN walks' = [ walks EXCEPT ![reverse] =
               [ started |-> TRUE,
                 begun |-> IF w.started THEN w.begun ELSE ops,
                 offset |-> IF next THEN r.b.links.next.offset ELSE offset,
                 items |-> all,
                 stopped |-> stopped \/ short,
                 got |-> IF stopped THEN w.got ELSE all,
                 done |-> ~next ] ]
     /\ UNCHANGED << ops, account, balances, send, cache, rg, reqs, asked,
                     scan, execs >>
     /\ UNCHANGED << dbVars, diVars, histVars, last >>

\* the heights of the stored operations
Stored(st) == { o.height : o \in st }

\* a block above every digested one is digested: its operations that
\* concern the address, the ones with an index in is, are stored
Ingest(h, is) ==
  /\ \A k \in Stored(ops) : k < h
  /\ is # {}
  /\ ops' = ops \cup { Op(h, i) : i \in is }
  /\ account' = h
  /\ UNCHANGED << balances, send, cache, rg, reqs, walks, asked, scan, execs >>
  /\ UNCHANGED << dbVars, diVars, histVars, last >>

InitWalk ==
  /\ InitWith(FALSE, FALSE)
  /\ ops \in Stores
  /\ account = (IF ops = {} THEN NilHeight
                ELSE CHOOSE k \in Stored(ops) : \A j \in Stored(ops) : j <= k)
  /\ balances = {}
  /\ send = NoSend
  /\ cache = {}
  /\ rg = {}
  /\ reqs = [ c \in Clients |-> NoReq ]
  /\ walks = [ reverse \in BOOLEAN |-> NoWalk ]
  /\ asked \in { [ path |-> "account-operations", offset |-> EmptyString,
                   reverse |-> FALSE, limit |-> l ] : l \in Limits }
  /\ scan = NoScan
  /\ execs = << >>

NextWalk ==
  \/ \E reverse \in BOOLEAN : Follow(reverse)
  \/ \E h \in Heights, is \in SUBSET (0..MaxIndex) : Ingest(h, is)

SpecWalk == InitWalk /\ [][NextWalk]_vars

(***************************************************************************)
(* The handlers behind the cache and the singleflight group: the clients   *)
(* send the same query, each once.                                         *)
(***************************************************************************)
\* expirations, in seconds
expireAccount == 2
expireFilled == 108000
expireNotFilled == 3

StatusOK == 200
StatusNotFound == 404
StatusInternalServerError == 500

stringOffsetQuery(offset) == << "offset", offset >>

stringBoolQuery(key, v) == IF v THEN << key, "1" >> ELSE << >>

\* the path followed by the queries that tell responses apart
CacheKey(path, s) == << path >> \o s

CacheKeyOf(q) ==
  IF q.path = "account" THEN CacheKey(q.path, << >>)
  ELSE CacheKey(q.path, << stringOffsetQuery(q.offset),
                          stringBoolQuery("reverse", q.reverse) >>)

\* the document of the account record of a height
buildAccountHal(height) == [ embedded |-> << height >>,
                             links |-> [ self |-> "account" ] ]

handleAccountInGroup(rec) ==
  IF rec = NilHeight THEN Failure("notfound", "account not found")
  ELSE [ err |-> "none", b |-> buildAccountHal(rec), filled |-> FALSE ]

\* the function the handler hands to the singleflight group
InGroup(q, st, rec) ==
  IF q.path = "account" THEN handleAccountInGroup(rec)
  ELSE handleAccountOperationsInGroup(st, q.offset, q.limit, q.reverse)

\* the status of the problem document written for an error
handleError(err) ==
  IF err = "notfound" THEN StatusNotFound ELSE StatusInternalServerError

\* the expiration the handler sets for a response it caches
ExpireFilled(q, filled) ==
  IF q.path = "account" THEN expireAccount ELSE expireFilled

Expire(q, filled) ==
  IF q.path = "account" THEN expireAccount
  ELSE IF Len(q.offset) > 0 /\ filled THEN expireFilled
  ELSE expireNotFilled

Entry(key) == { e \in cache : e.key = key }

\* the executions that have completed
Completed == { i \in 1..Len(execs) : execs[i].done }

\* the handler is entered and looks the key up in the cache
Request(c) ==
  /\ reqs[c].pc = "idle"
  /\ IF Entry(CacheKeyOf(asked)) # {}
     THEN \E e \in Entry(CacheKeyOf(asked)) :
            reqs' = [ reqs EXCEPT ![c] =
                        [ NoReq EXCEPT !.pc = "done", !.status = StatusOK,
                                       !.body = e.body,
                                       !.limit = reqs[c].limit ] ]
     ELSE reqs' = [ reqs EXCEPT ![c] =
                      [ NoReq EXCEPT !.pc = "do",
                                     !.began = Cardinality(Completed),
                                     !.limit = reqs[c].limit ] ]
  /\ UNCHANGED << ops, account, balances, send, cache, rg,
                  walks, asked, scan, execs >>
  /\ UNCHANGED << dbVars, diVars, histVars, last >>

\* an execution that has not run: v is its result, st and rec the records
\* it read, cached whether a caller stored its response
NoExec == [ v |-> NoResult, ran |-> FALSE, done |-> FALSE, cached |-> FALSE,
            st |-> {}, rec |-> NilHeight ]

DoAlone(c) ==
  /\ reqs[c].pc = "do"
  /\ rg' = rg \cup { [ key |-> CacheKeyOf(asked), id |-> Len(execs) + 1,
                       dups |-> 0 ] }
  /\ execs' = Append(execs, NoExec)
  /\ reqs' = [ reqs EXCEPT ![c].pc = "exec", ![c].call = Len(execs) + 1,
                           ![c].entered = Cardinality(Completed) ]
  /\ UNCHANGED << ops, account, balances, send, cache, walks, asked,
                  scan >>
  /\ UNCHANGED << dbVars, diVars, histVars, last >>

\* singleflight's Do is called: the caller joins the call in flight for the
\* key, or starts one
Do(c) ==
  /\ reqs[c].pc = "do"
  /\ IF \E call \in rg : call.key = CacheKeyOf(asked)
     THEN \E call \in rg :
            /\ call.key = CacheKeyOf(asked)
            /\ rg' = (rg \ { call })
                       \cup { [ call EXCEPT !.dups = call.dups + 1 ] }
            /\ reqs' = [ reqs EXCEPT ![c].pc = "wait", ![c].call = call.id,
                                     ![c].entered = Cardinality(Completed) ]
            /\ UNCHANGED execs
     ELSE /\ rg' = rg \cup { [ key |-> CacheKeyOf(asked),
                               id |-> Len(execs) + 1, dups |-> 0 ] }
          /\ execs' = Append(execs, NoExec)
          /\ reqs' = [ reqs EXCEPT ![c].pc = "exec",
                                   ![c].call = Len(execs) + 1,
                                   ![c].entered = Cardinality(Completed) ]
  /\ UNCHANGED << ops, account, balances, send, cache, walks, asked,
                  scan >>
  /\ UNCHANGED << dbVars, diVars, histVars, last >>

\* the query of the request of c: the path, offset and reverse flag the
\* requests share, and its own limit
Asked(c) == [ asked EXCEPT !.limit = reqs[c].limit ]

\* the function runs: the query is executed against the Derived Store
Execute(c) ==
  /\ reqs[c].pc = "exec"
  /\ execs' = [ execs EXCEPT ![reqs[c].call] =
                 [ @ EXCEPT !.v = InGroup(Asked(c), ops, account),
                            !.ran = TRUE,
                            !.st = ops, !.rec = account ] ]
  /\ reqs' = [ reqs EXCEPT ![c].pc = "fn" ]
  /\ UNCHANGED << ops, account, balances, send, cache, rg, walks, asked, scan >>
  /\ UNCHANGED << dbVars, diVars, histVars, last >>

CompleteOwnerOnly(c) ==
  LET i == reqs[c].call
  IN /\ reqs[c].pc = "fn"
     /\ \E call \in rg :
          /\ call.id = i
          /\ rg' = rg \ { call }
          /\ reqs' = [ reqs EXCEPT ![c].pc = "got", ![c].v = execs[i].v,
                                   ![c].shared = call.dups > 0 ]
     /\ execs' = [ execs EXCEPT ![i].done = TRUE ]
     /\ UNCHANGED << ops, account, balances, send, cache, walks, asked,
                     scan >>
     /\ UNCHANGED << dbVars, diVars, histVars, last >>

\* the function has returned: the call leaves the group and every caller
\* of it gets its result; shared tells that there was more than one caller
Complete(c) ==
  LET i == reqs[c].call
  IN /\ reqs[c].pc = "fn"
     /\ \E call \in rg :
          /\ call.id = i
          /\ rg' = rg \ { call }
          /\ reqs' = [ d \in Clients |->
               IF reqs[d].call = i /\ reqs[d].pc \in { "fn", "wait" }
               THEN [ reqs[d] EXCEPT !.pc = "got", !.v = execs[i].v,
                                     !.shared = call.dups > 0 ]
               ELSE reqs[d] ]
     /\ execs' = [ execs EXCEPT ![i].done = TRUE ]
     /\ UNCHANGED << ops, account, balances, send, cache, walks, asked,
                     scan >>
     /\ UNCHANGED << dbVars, diVars, histVars, last >>

\* slip: the cache key and expiration are set whether or not the result
\* was shared
RespondShared(c) ==
  LET r == reqs[c]
      ok == r.v.err = "none"
      expire == IF ok THEN Expire(asked, r.v.filled) ELSE 0
      status == IF ok THEN StatusOK ELSE handleError(r.v.err)
  IN /\ r.pc = "got"
     /\ reqs' = [ reqs EXCEPT ![c].pc = "done", ![c].status = status,
                              ![c].body = r.v.b, ![c].expire = expire ]
     /\ cache' = IF expire > 0
                 THEN (cache \ Entry(CacheKeyOf(asked)))
                        \cup { [ key |-> CacheKeyOf(asked), body |-> r.v.b,
                                 expire |-> expire ] }
                 ELSE cache
     /\ execs' = [ execs EXCEPT ![r.call].cached = @ \/ expire > 0 ]
     /\ UNCHANGED << ops, account, balances, send, rg, walks, asked, scan >>
     /\ UNCHANGED << dbVars, diVars, histVars, last >>

\* the handler writes the response, a problem document for an error, and
\* sets the cache key and expiration unless the result was shared; the
\* caching handler then stores the response that has them
Respond(c) ==
  LET r == reqs[c]
      ok == r.v.err = "none"
      expire == IF ok /\ ~r.shared THEN Expire(asked, r.v.filled) ELSE 0
      status == IF ok THEN StatusOK ELSE handleError(r.v.err)
  IN /\ r.pc = "got"
     /\ reqs' = [ reqs EXCEPT ![c].pc = "done", ![c].status = status,
                              ![c].body = r.v.b, ![c].expire = expire ]
     /\ cache' = IF expire > 0
                 THEN (cache \ Entry(CacheKeyOf(asked)))
                        \cup { [ key |-> CacheKeyOf(asked), body |-> r.v.b,
                                 expire |-> expire ] }
                 ELSE cache
     /\ execs' = [ execs EXCEPT ![r.call].cached = @ \/ expire > 0 ]
     /\ UNCHANGED << ops, account, balances, send, rg, walks, asked, scan >>
     /\ UNCHANGED << dbVars, diVars, histVars, last >>

\* a stored response reaches its expiration
Expired(e) ==
  /\ e \in cache
  /\ cache' = cache \ { e }
  /\ UNCHANGED << ops, account, balances, send, rg, reqs, walks, asked,
                  scan, execs >>
  /\ UNCHANGED << dbVars, diVars, histVars, last >>

\* the operation collection holds the first records of a block, in order
\* of their index, or more records of a block than maxLimit
Prefixes ==
  { { o \in Grid : o.height = 0 /\ o.index < n } : n \in 0..(MaxIndex + 1) }
    \cup { Bulk }

\* the queries: the account, or a page of its operations from the start,
\* from the first operation, or from beyond the last
Queries ==
  { [ NoQuery EXCEPT !.path = "account" ] }
    \cup { [ path |-> "account-operations", offset |-> offset,
             reverse |-> reverse, limit |-> limit ] :
             offset \in { EmptyString, buildOffset(0, 0),
                          buildOffset(MaxHeight + 1, 0) },
             reverse \in BOOLEAN, limit \in Limits }

InitQuery ==
  /\ InitWith(FALSE, FALSE)
  /\ ops \in Prefixes
  /\ account = (IF ops = {} THEN NilHeight ELSE 0)
  /\ balances = {}
  /\ send = NoSend
  /\ cache = {}
  /\ rg = {}
  /\ asked \in Queries
  /\ reqs = [ c \in Clients |-> [ NoReq EXCEPT !.limit = asked.limit ] ]
  /\ walks = [ reverse \in BOOLEAN |-> NoWalk ]
  /\ scan = NoScan
  /\ execs = << >>

NextQuery ==
  \/ \E c \in Clients : Request(c)
  \/ \E c \in Clients : Do(c)
  \/ \E c \in Clients : Execute(c)
  \/ \E c \in Clients : Complete(c)
  \/ \E c \in Clients : Respond(c)
  \/ \E e \in cache : Expired(e)
  \/ \E h \in Heights : Ingest(h, 0..MaxIndex)

SpecQuery == InitQuery /\ [][NextQuery]_vars

\* the clients ask for pages of one path, offset and reverse flag, each with
\* a limit of its own (asked.limit is not used)
InitLimits ==
  /\ InitWith(FALSE, FALSE)
  /\ ops \in Prefixes
  /\ account = (IF ops = {} THEN NilHeight ELSE 0)
  /\ balances = {}
  /\ send = NoSend
  /\ cache = {}
  /\ rg = {}
  /\ asked \in { q \in Queries : q.path = "account-operations"
                                  /\ q.limit = -1 }
  /\ reqs \in [ Clients -> { [ NoReq EXCEPT !.limit = l ] : l \in Limits } ]
  /\ walks = [ reverse \in BOOLEAN |-> NoWalk ]
  /\ scan = NoScan
  /\ execs = << >>

SpecLimits == InitLimits /\ [][NextQuery]_vars

(***************************************************************************)
(* Claims about range scans                                                *)
(***************************************************************************)
\* (height, index) of a comes before that of b, lexicographically
LexLess(a, b) ==
  a.height < b.height \/ (a.height = b.height /\ a.index < b.index)

\* C25: OperationsByAddress with offset (h,i) delivers operations of the
\* address only, each strictly greater than (h,i) and in ascending (height,
\* index) order when reverse is false, each strictly less and in descending
\* order when reverse is true, all of them with an empty offset; an
\* operation it leaves out lies behind the last one delivered, and is left
\* out only because the limit was reached.
C25_CursorScan ==
  (scan.fn = "OperationsByAddress" /\ ~scan.r.err) =>
    LET out == scan.r.out
        at == parseOffset(scan.offset)
        beyond(o) ==
          \/ scan.offset = EmptyString
          \/ IF scan.reverse THEN LexLess(o, at) ELSE LexLess(at, o)
        want == { o \in ops : beyond(o) }
    IN /\ Range(out) \subseteq want
       /\ \A k \in 1..(Len(out) - 1) :
            IF scan.reverse THEN LexLess(out[k + 1], out[k])
            ELSE LexLess(out[k], out[k + 1])
       /\ \A o \in want \ Range(out) :
            /\ scan.limit > 0
            /\ Len(out) = Min(scan.limit, maxLimit)
            /\ IF scan.reverse THEN LexLess(o, out[Len(out)])
               ELSE LexLess(out[Len(out)], o)

\* a reverse scan from the offset of a stored operation delivered two
\* operations and left out the one at the offset
C25_Witness ==
  /\ scan.fn = "OperationsByAddress"
  /\ ~scan.r.err
  /\ scan.reverse
  /\ scan.offset # EmptyString
  /\ Len(scan.r.out) = 2
  /\ \E o \in ops : buildOffset(o.height, o.index) = scan.offset

\* C26: a range scan (OperationsByAddress, Operations) never delivers more
\* records than the maximum page size, whatever limit is requested.
C26_ScanWithinMaxLimit ==
  scan.fn # "none" => Len(scan.r.out) <= maxLimit

(***************************************************************************)
(* Claims about paging                                                     *)
(***************************************************************************)
Reverse(s) == [ k \in 1..Len(s) |-> s[Len(s) + 1 - k] ]

\* both scans have met a page smaller than the limit (or no page at all),
\* and no block was digested since the first of them began
BothStopped ==
  /\ \A reverse \in BOOLEAN :
       walks[reverse].started /\ walks[reverse].stopped
  /\ walks[FALSE].begun = ops

\* C27 (as stated): scanning forward from the empty offset with limit L,
\* following the next cursors until a page smaller than L is returned,
\* yields the reverse scan's sequence reversed, and both hold every
\* operation of the address, for every L.
C27_ForwardIsReverseReversed ==
  BothStopped =>
    /\ walks[FALSE].got = Reverse(walks[TRUE].got)
    /\ Range(walks[FALSE].got) = ops

\* C27 (amended): the same for every limit L that is not above the maximum
\* page size.
C27_ForwardIsReverseReversedWithinMax ==
  (BothStopped /\ asked.limit <= maxLimit) =>
    /\ walks[FALSE].got = Reverse(walks[TRUE].got)
    /\ Range(walks[FALSE].got) = ops

\* both scans took several pages of two operations
C27_Witness ==
  /\ BothStopped
  /\ asked.limit = 2
  /\ Len(walks[FALSE].got) >= 3
  /\ Len(walks[TRUE].got) >= 3

\* C28: the next cursor of a page is the offset of the page's last item,
\* and following next cursors visits no operation twice and leaves out no
\* operation that existed when the scan began, also when blocks of greater
\* height are digested between two requests.
C28_NextCursorNoGapNoDuplicate ==
  \A reverse \in BOOLEAN :
    LET w == walks[reverse]
    IN w.started =>
         LET n == Len(w.items)
             visited == Range(w.items)
         IN /\ n > 0 =>
                 w.offset = buildOffset(w.items[n].height, w.items[n].index)
            /\ Cardinality(visited) = n
            /\ \A o \in w.begun \ visited :
                 /\ ~w.done
                 /\ n > 0
                 /\ IF reverse THEN LexLess(o, w.items[n])
                    ELSE LexLess(w.items[n], o)

\* a forward scan of pages of one operation came to its end, and visited
\* operations of a block digested after it began
C28_Witness ==
  /\ walks[FALSE].started
  /\ walks[FALSE].done
  /\ asked.limit = 1
  /\ Cardinality(walks[FALSE].begun) >= 2
  /\ Len(walks[FALSE].items) > Cardinality(walks[FALSE].begun)

(***************************************************************************)
(* Claims about the cache and the singleflight group                       *)
(***************************************************************************)
\* every client has its response, none from the cache, and every client
\* made its request before any execution had completed
AllConcurrent ==
  \A c \in Clients :
    reqs[c].pc = "done" /\ reqs[c].call > 0 /\ reqs[c].began = 0

SameResponses ==
  \A c, d \in Clients :
    reqs[c].status = reqs[d].status /\ reqs[c].body = reqs[d].body

\* C21 (as stated): concurrent identical queries issued while no cached
\* entry exists result in exactly one execution and equal responses, in
\* every interleaving.
C21_OneExecution ==
  AllConcurrent => (Len(execs) = 1 /\ SameResponses)

\* C21 (amended): they do when each of them enters the singleflight group
\* before the first execution completes.
C21_OneExecutionWhenJoined ==
  (AllConcurrent /\ \A c \in Clients : reqs[c].entered = 0) =>
    (Len(execs) = 1 /\ SameResponses)

\* two concurrent queries were answered from one execution
C21_Witness ==
  /\ AllConcurrent
  /\ \A c \in Clients : reqs[c].entered = 0 /\ reqs[c].status = StatusOK
  /\ Len(execs) = 1

\* the executions in progress
InProgress == { i \in 1..Len(execs) : ~execs[i].done }

\* C22: for a cache key at most one execution is in progress at any moment;
\* a caller that arrives while it is in progress starts no execution, waits
\* as long as it is in progress, and then has that execution's result and
\* error.
C22_OneInFlight ==
  [][ /\ Cardinality(InProgress') <= 1
      /\ \A c \in Clients :
           /\ (reqs[c].pc = "do" /\ reqs'[c].pc # "do" /\ InProgress # {}) =>
                /\ reqs'[c].pc = "wait"
                /\ reqs'[c].call \in InProgress
                /\ Len(execs') = Len(execs)
           /\ reqs'[c].pc = "wait" => reqs'[c].call \in InProgress'
           /\ (reqs[c].pc = "wait" /\ reqs'[c].pc # "wait") =>
                /\ reqs'[c].pc = "got"
                /\ reqs'[c].call = reqs[c].call
                /\ reqs'[c].call \notin InProgress'
                /\ reqs'[c].v = execs[reqs[c].call].v
                /\ execs[reqs[c].call].ran ]_vars

\* a caller that waited has the result of the other's execution
C22_Witness ==
  \E c, d \in Clients :
    /\ c # d
    /\ reqs[c].pc = "got"
    /\ reqs[c].shared
    /\ reqs[d].pc = "done"
    /\ reqs[d].call = reqs[c].call
    /\ Len(execs) = 1

\* C23: after every successful query execution, also one whose result
\* several callers shared, the response is stored in the cache under the
\* request's key with an expiration.
C23_ExecutionCached ==
  \A i \in 1..Len(execs) :
    ( /\ execs[i].done
      /\ execs[i].v.err = "none"
      /\ \A c \in Clients : reqs[c].call = i => reqs[c].pc = "done" )
    => execs[i].cached

\* the responses of the paginated query that were written with a cache key
Paged ==
  { c \in Clients : /\ asked.path = "account-operations"
                    /\ reqs[c].pc = "done"
                    /\ reqs[c].status = StatusOK
                    /\ reqs[c].expire > 0 }

\* the limit the handler passes to the scan
Requested == IF asked.limit < 0 THEN defaultItemsLimiter ELSE asked.limit

\* C24 (as stated): a full page is cached with the multi-hour expiration
\* and a partial page with the short one, for every offset and limit.
C24_FullPageLongPartialShort ==
  \A c \in Paged :
    LET n == Len(reqs[c].body.embedded)
    IN /\ n = Requested => reqs[c].expire = expireFilled
       /\ n < Requested => reqs[c].expire = expireNotFilled

\* C24 (amended): a full page is cached with the multi-hour expiration
\* when the offset is not empty; a full page for the empty offset, and a
\* page that is not full, with the short one.
C24_FullPageBeyondOffsetLong ==
  \A c \in Paged :
    LET n == Len(reqs[c].body.embedded)
    IN reqs[c].expire =
         (IF asked.offset # EmptyString /\ n = Requested THEN expireFilled
          ELSE expireNotFilled)

\* a full page from an offset was cached
C24_Witness ==
  \E c \in Paged :
    /\ Len(reqs[c].body.embedded) = Requested
    /\ asked.offset # EmptyString
    /\ reqs[c].expire = expireFilled

\* the successful responses of the paginated query
Pages ==
  { c \in Clients : /\ asked.path = "account-operations"
                    /\ reqs[c].pc = "done"
                    /\ reqs[c].status = StatusOK }

\* the limit in force: none for 0, never above maxLimit
InForce == IF Requested > maxLimit THEN maxLimit ELSE Requested

\* C29 (as stated): a paginated response carries a next link if and only
\* if the page was full.
C29_NextIffFull ==
  \A c \in Pages :
    "next" \in DOMAIN reqs[c].body.links
      <=> Len(reqs[c].body.embedded) = InForce

\* C29 (amended): a paginated response carries a next link if and only if
\* the page holds an item, which every page returned does, full or not.
C29_NextIffNotEmpty ==
  \A c \in Pages :
    /\ "next" \in DOMAIN reqs[c].body.links
         <=> Len(reqs[c].body.embedded) > 0
    /\ "next" \in DOMAIN reqs[c].body.links

\* a page that is not full was returned, with a next link
C29_Witness ==
  \E c \in Pages :
    /\ InForce > 0
    /\ Len(reqs[c].body.embedded) < InForce
    /\ "next" \in DOMAIN reqs[c].body.links

\* the execution read no record that matches the query
Nothing(i) ==
  IF asked.path = "account" THEN execs[i].rec = NilHeight
  ELSE LET at == parseOffset(asked.offset)
       IN \A o \in execs[i].st :
            /\ asked.offset # EmptyString
            /\ IF asked.reverse THEN ~LexLess(o, at) ELSE ~LexLess(at, o)

\* C30: a query that matches nothing is answered with a not-found problem
\* and status 404 and nothing is written to the cache for it; no empty
\* page is returned.
C30_NothingIsNotFound ==
  \A c \in Clients :
    (reqs[c].pc = "done" /\ reqs[c].call > 0) =>
      LET i == reqs[c].call
      IN IF Nothing(i)
         THEN /\ reqs[c].status = StatusNotFound
              /\ reqs[c].body \in { [ problem |-> "account not found" ],
                                    [ problem |-> "operations not found" ] }
              /\ reqs[c].expire = 0
              /\ ~execs[i].cached
         ELSE /\ reqs[c].status = StatusOK
              /\ Len(reqs[c].body.embedded) > 0

\* the operations from an offset beyond the last record were not found
C30_Witness ==
  \E c \in Clients :
    /\ reqs[c].pc = "done"
    /\ reqs[c].status = StatusNotFound
    /\ asked.path = "account-operations"
    /\ asked.offset # EmptyString
    /\ execs[reqs[c].call].st # {}


(***************************************************************************)
(* Cancellation of the loop, rollbacks and the two copies of the marker.   *)
(***************************************************************************)
\* the marker as persisted: the height of the info document, NilHeight when
\* there is none
Persisted == loadLastBlock(DB).h

\* C35: once cancellation has been signalled and no block is in flight (the
\* loop is at its select), the loop does not dequeue another block, even
\* when blocks are waiting in the channel.
C35_NoDequeueAfterCancel ==
  [][ (cancelled /\ loop = "select") => loop' # "retry" ]_vars

\* C38: CleanByHeight(h) never leaves the marker higher than it was before
\* the call, whatever h.
C38_CleanByHeightNeverRaises ==
  last.op = "CleanByHeight" => lastBlock <= last.pre

\* C39: when CleanByHeight(h) has run while DigestBlock of a block b with
\* height(b) >= h was in flight and DigestBlock then returns success, a
\* marker that covers height(b) implies that the records of b are in every
\* collection.
C39_RollbackKeepsCoveredBlock ==
  [][ \A s \in sessions :
        ( /\ last.op = "CleanByHeight"
          /\ s.blk >= last.h
          /\ DoneStep
          /\ last'.h = s.blk
          /\ lastBlock' >= s.blk )
          => \A col \in Collections : s.blk \in cols'[col] ]_vars

\* C40: a successful Initialize makes the in-memory marker equal to the
\* persisted one, every later step keeps them equal, and a call other than
\* Initialize that returns an error (a failed SetInfo included) leaves the
\* in-memory marker as it was.
C40_MarkerIsPersisted ==
  [][ /\ (CallStep("Initialize") /\ ~last'.err) => lastBlock' = Persisted'
      /\ lastBlock = Persisted => lastBlock' = Persisted'
      /\ (last'.op \notin { "none", "Initialize" } /\ last'.err)
           => lastBlock' = lastBlock ]_vars

\* C40 witness: on a writable Database whose marker is persisted, a
\* SetLastBlock of a greater height has failed to persist it.
C40_Witness ==
  /\ last.op = "SetLastBlock" /\ last.err /\ ~readonly
  /\ last.h > last.pre
  /\ info.found /\ lastBlock = info.height

(***************************************************************************)
(* Who writes the cache entry of an execution.                              *)
(***************************************************************************)
\* the callers that got the result of execution i and have responded
Receivers(i) == { c \in Clients : reqs[c].call = i /\ reqs[c].pc = "done" }

\* the callers of execution i that set the cache key and expiration on
\* their response, which makes the caching handler store it
Writers(i) == { c \in Receivers(i) : reqs[c].expire > 0 }

\* C36: of the callers that receive the result of one execution at most one
\* writes the cache entry, and a caller whose result is marked shared never
\* writes it.
C36_OneCacheWriter ==
  /\ \A i \in 1..Len(execs) : Cardinality(Writers(i)) <= 1
  /\ \A c \in Clients : reqs[c].shared => reqs[c].expire = 0

\* C36 witness: two callers have received the successful result of one
\* execution, marked shared, and both have responded.
C36_Witness ==
  \E i \in 1..Len(execs) :
    /\ Cardinality(Receivers(i)) = 2
    /\ execs[i].v.err = "none"
    /\ \A c \in Receivers(i) : reqs[c].shared

(***************************************************************************)
(* Which query a response was computed for.                                 *)
(***************************************************************************)
\* the page the query of c gives over the records execution j read
PageOf(c, j) == InGroup(Asked(c), execs[j].st, execs[j].rec).b

\* the requests answered with a page of operations
Answered ==
  { c \in Clients : /\ asked.path = "account-operations"
                    /\ reqs[c].pc = "done"
                    /\ reqs[c].status = StatusOK }

\* C37: the page a request gets from a coalesced execution, or from the
\* cache, is the page of its own path, offset, reverse flag and limit over
\* the records that execution, or some execution, read.
C37_PageOfOwnLimit ==
  \A c \in Answered :
    IF reqs[c].call > 0
      THEN reqs[c].body = PageOf(c, reqs[c].call)
      ELSE \E j \in 1..Len(execs) :
             execs[j].ran /\ reqs[c].body = PageOf(c, j)

(***************************************************************************)
(* parseOffset and buildOffset on their own: a string is parsed, or a pair  *)
(* of a height and an index is built into an offset that is then parsed.    *)
(***************************************************************************)
MaxLen == 4
MaxPair == 11

\* the characters of the strings handed to parseOffset
Chars == { "-", ",", "0", "3", "x" }

Strings == UNION { [ 1..n -> Chars ] : n \in 0..MaxLen }

NoParse == [ err |-> FALSE, height |-> NilHeight, index |-> 0 ]

\* buildOffset(height, index)
CallBuildOffset ==
  /\ scan.fn = "pair"
  /\ scan' = [ scan EXCEPT !.fn = "built",
                           !.s = buildOffset(scan.height, scan.index) ]
  /\ UNCHANGED << ops, account, balances, send, cache, rg,
                  reqs, walks, asked, execs >>
  /\ UNCHANGED << dbVars, diVars, histVars, last >>

\* parseOffset(s), of a given string or of the offset just built
CallParseOffset ==
  /\ scan.fn \in { "given", "built" }
  /\ scan' = [ scan EXCEPT !.fn = IF scan.fn = "built" THEN "roundtrip"
                                  ELSE "parsed",
                           !.r = parseOffset(scan.s) ]
  /\ UNCHANGED << ops, account, balances, send, cache, rg,
                  reqs, walks, asked, execs >>
  /\ UNCHANGED << dbVars, diVars, histVars, last >>

\* a string, or a pair of a height from NilHeight up and an index
InitOffset ==
  /\ InitWith(FALSE, FALSE)
  /\ ops = {}
  /\ account = NilHeight
  /\ balances = {}
  /\ send = NoSend
  /\ cache = {}
  /\ rg = {}
  /\ reqs = [ c \in Clients |-> NoReq ]
  /\ walks = [ reverse \in BOOLEAN |-> NoWalk ]
  /\ asked = NoQuery
  /\ scan \in { [ fn |-> "given", height |-> NilHeight, index |-> 0,
                  s |-> s, r |-> NoParse ] : s \in Strings }
         \cup { [ fn |-> "pair", height |-> h, index |-> i,
                  s |-> EmptyString, r |-> NoParse ] :
                  h \in NilHeight..MaxPair, i \in 0..MaxPair }
  /\ execs = << >>

NextOffset == CallBuildOffset \/ CallParseOffset

SpecOffset == InitOffset /\ [][NextOffset]_vars

\* s is a decimal numeral: digits only, at least one
Numeral(s) == Len(s) > 0 /\ \A k \in 1..Len(s) : s[k] \in Range(Digits)

\* s is one comma-separated pair of a valid height (an integer numeral of a
\* value not below NilHeight) and a non-negative integer
WellFormed(s) ==
  \E k \in 1..Len(s) :
    LET left == SubSeq(s, 1, k - 1)
        right == SubSeq(s, k + 1, Len(s))
        signed == Len(left) > 0 /\ left[1] = "-"
        digits == IF signed THEN Tail(left) ELSE left
    IN /\ s[k] = ","
       /\ Numeral(digits)
       /\ (IF signed THEN 0 - ParseUint(digits).n ELSE ParseUint(digits).n)
            >= NilHeight
       /\ Numeral(right)

\* C33: parseOffset(buildOffset(height, index)) returns (height, index)
\* without error for every valid height and non-negative index, and
\* parseOffset returns an error for every string that is not one
\* comma-separated pair of a valid height and a non-negative integer.
C33_OffsetRoundTripAndErrors ==
  /\ scan.fn = "roundtrip" =>
       scan.r = [ err |-> FALSE, height |-> scan.height,
                  index |-> scan.index ]
  /\ scan.fn = "parsed" => (~WellFormed(scan.s) => scan.r.err)

(***************************************************************************)
(* Database.Account: the account record of an address joined with its      *)
(* balance records.                                                         *)
(***************************************************************************)
Currencies == { "X", "Y" }
Amounts == { 1, 2 }

\* the height of the record of currency c before the one of height h in
\* the map f, NilHeight when there is none
Previous(f, c, h) ==
  LET below == { k \in Heights : k < h /\ f[c, k] # 0 }
  IN IF below = {} THEN NilHeight
     ELSE CHOOSE k \in below : \A j \in below : j <= k

\* the balance records a map f gives: f[c, h] is the amount of currency c
\* in the state of height h, 0 when that height has no record of c; the
\* previous height of a record is the height of the record before it
BalanceDocs(f) ==
  { [ currency |-> p[1], height |-> p[2], amount |-> f[p],
      previousHeight |-> Previous(f, p[1], p[2]) ] :
      p \in { p \in Currencies \X Heights : f[p] # 0 } }

BalanceStores ==
  { BalanceDocs(f) : f \in [ Currencies \X Heights -> Amounts \cup { 0 } ] }

\* GetByFilter(..., SetSort(height: -1)): the records a FindOne sorted by
\* descending height may return, any of those of the greatest height
FindOne(docs) == { d \in docs : \A e \in docs : e.height <= d.height }

\* slip: the loop takes, of every currency, the record of least height
RECURSIVE balanceOldest(_, _, _, _, _)
balanceOldest(bs, cids, amm, lastHeight, previousHeight) ==
  LET docs == { d \in bs : d.currency \notin cids }
  IN IF docs = {}
       THEN { [ am |-> amm, lastHeight |-> lastHeight,
                previousHeight |-> previousHeight ] }
       ELSE UNION {
         balanceOldest(bs, cids \cup { d.currency },
           amm \cup { [ currency |-> d.currency, amount |-> d.amount ] },
           IF d.height > lastHeight THEN d.height ELSE lastHeight,
           IF d.height > lastHeight THEN d.previousHeight
           ELSE previousHeight) :
         d \in { d \in docs : \A e \in docs : e.height >= d.height } }

\* Database.balance, from an iteration of its loop on: cids are the
\* currencies found so far, amm their amounts; the outcomes it may have
RECURSIVE balance(_, _, _, _, _)
balance(bs, cids, amm, lastHeight, previousHeight) ==
  LET docs == { d \in bs : d.currency \notin cids }
  IN IF docs = {}
       THEN { [ am |-> amm, lastHeight |-> lastHeight,
                previousHeight |-> previousHeight ] }
       ELSE UNION {
         balance(bs, cids \cup { d.currency },
           amm \cup { [ currency |-> d.currency, amount |-> d.amount ] },
           IF d.height > lastHeight THEN d.height ELSE lastHeight,
           IF d.height > lastHeight THEN d.previousHeight
           ELSE previousHeight) :
         d \in FindOne(docs) }

NoAccount == [ err |-> FALSE, found |-> FALSE, balance |-> {},
               height |-> NilHeight, previousHeight |-> NilHeight ]

\* slip: the AccountValue keeps the height of the account record
AccountOwnHeight(rec, bs, ok) ==
  IF ~ok THEN { [ NoAccount EXCEPT !.err = TRUE ] }
  ELSE IF rec = NilHeight THEN { NoAccount }
  ELSE { [ err |-> FALSE, found |-> TRUE, balance |-> b.am,
           height |-> rec, previousHeight |-> b.previousHeight ] :
           b \in balance(bs, {}, {}, NilHeight, NilHeight) }

\* Database.Account: rec is the height of the latest account record of the
\* address (NilHeight: it has none), bs its balance records, ok whether the
\* storage answers; the outcomes it may have
Account(rec, bs, ok) ==
  IF ~ok THEN { [ NoAccount EXCEPT !.err = TRUE ] }
  ELSE IF rec = NilHeight THEN { NoAccount }
  ELSE { [ err |-> FALSE, found |-> TRUE, balance |-> b.am,
           height |-> b.lastHeight, previousHeight |-> b.previousHeight ] :
           b \in balance(bs, {}, {}, NilHeight, NilHeight) }

\* a direct call of Database.Account
CallAccount(ok) ==
  /\ scan = NoScan
  /\ \E r \in Account(account, balances, ok) :
       scan' = [ fn |-> "Account", r |-> r ]
  /\ UNCHANGED << ops, account, balances, send, cache, rg, reqs, walks, asked,
                  execs >>
  /\ UNCHANGED << dbVars, diVars, histVars, last >>

\* the address has any balance records and an account record of any
\* height, or none
InitAccount ==
  /\ InitWith(FALSE, FALSE)
  /\ ops = {}
  /\ account \in Heights \cup { NilHeight }
  /\ balances \in BalanceStores
  /\ send = NoSend
  /\ cache = {}
  /\ rg = {}
  /\ reqs = [ c \in Clients |-> NoReq ]
  /\ walks = [ reverse \in BOOLEAN |-> NoWalk ]
  /\ asked = NoQuery
  /\ scan = NoScan
  /\ execs = << >>

NextAccount == \E ok \in BOOLEAN : CallAccount(ok)

SpecAccount == InitAccount /\ [][NextAccount]_vars

\* the records of currency c
Of(c) == { d \in balances : d.currency = c }

\* the records of the greatest height of a set of records
Latest(docs) == { d \in docs : \A e \in docs : e.height <= d.height }

\* Account has returned an AccountValue
Returned == scan.fn = "Account" /\ ~scan.r.err /\ scan.r.found

\* C31: for an address with an account record, Account returns exactly one
\* amount per currency that has balance records, the amount of that
\* currency's record of greatest height; the height is the greatest height
\* among the balance records and previousHeight the previous height of a
\* record of that height.
C31_LatestBalancePerCurrency ==
  Returned =>
    /\ { a.currency : a \in scan.r.balance } =
         { d.currency : d \in balances }
    /\ \A a \in scan.r.balance :
         /\ \A d \in Latest(Of(a.currency)) : a.amount = d.amount
         /\ \A e \in scan.r.balance : e.currency = a.currency => e = a
    /\ balances # {} =>
         \E d \in Latest(balances) :
           /\ scan.r.height = d.height
           /\ scan.r.previousHeight = d.previousHeight

\* C31 witness: both currencies have records, the one of two heights, and
\* the records of the greatest height differ in their previous height.
C31_Witness ==
  /\ Returned
  /\ Cardinality(scan.r.balance) = 2
  /\ \E c \in Currencies : Cardinality(Of(c)) = 2
  /\ \E d, e \in Latest(balances) : d.previousHeight # e.previousHeight

Messages == { "seal", "operation", "other" }

\* what SendSeal(ctx, sl) returns: nil, an error of the channel, or the
\* error of the context when its timeout has passed
SendOutcomes == { "nil", "error", "deadline" }

\* the handler is called: the type switch, signSeal or NewBaseSeal, IsValid;
\* then wg.Add(len(chans)) and make(chan error, len(chans))
SignSeal(v, ok) ==
  /\ send.pc = "idle"
  /\ send' = IF v = "other" \/ ~ok
               THEN [ send EXCEPT !.pc = "returned", !.err = TRUE ]
               ELSE [ send EXCEPT !.pc = "go", !.signed = TRUE,
                                  !.wg = NumChans ]
  /\ UNCHANGED << ops, account, balances, cache, rg, reqs, walks, asked,
                  scan, execs >>
  /\ UNCHANGED << dbVars, diVars, histVars, last >>

\* for i := range chans { go func(i int) {...}(i) }: the next goroutine is
\* started; after the last one the handler is at wg.Wait()
GoSend ==
  LET i == send.started + 1
      chan == [ send.chan EXCEPT ![i].pc = "sending" ]
  IN /\ send.pc = "go"
     /\ send' = [ send EXCEPT
                    !.started = i,
                    !.chan = chan,
                    !.pc = IF i = NumChans THEN "wait" ELSE "go",
                    !.together = \A j \in Chans : chan[j].pc = "sending" ]
     /\ UNCHANGED << ops, account, balances, cache, rg, reqs, walks, asked,
                     scan, execs >>
     /\ UNCHANGED << dbVars, diVars, histVars, last >>

\* chans[i].SendSeal(ctx, sl) returns, at the latest when the timeout of its
\* context has passed
SendSeal(i, out) ==
  /\ send.chan[i].pc = "sending"
  /\ send' = [ send EXCEPT !.chan[i] = [ pc |-> "result", out |-> out ] ]
  /\ UNCHANGED << ops, account, balances, cache, rg, reqs, walks, asked,
                  scan, execs >>
  /\ UNCHANGED << dbVars, diVars, histVars, last >>

\* errchan <- ...: the send on the buffered channel, possible while the
\* buffer is not full
PutErr(i) ==
  /\ send.chan[i].pc = "result"
  /\ Len(send.errchan) < NumChans
  /\ send' = [ send EXCEPT
                 !.errchan = Append(@, send.chan[i].out # "nil"),
                 !.chan[i].pc = "sent" ]
  /\ UNCHANGED << ops, account, balances, cache, rg, reqs, walks, asked,
                  scan, execs >>
  /\ UNCHANGED << dbVars, diVars, histVars, last >>

\* defer cancel(); defer wg.Done()
WgDone(i) ==
  /\ send.chan[i].pc = "sent"
  /\ send' = [ send EXCEPT !.wg = @ - 1, !.chan[i].pc = "done" ]
  /\ UNCHANGED << ops, account, balances, cache, rg, reqs, walks, asked,
                  scan, execs >>
  /\ UNCHANGED << dbVars, diVars, histVars, last >>

\* slip: the handler goes on without waiting for the goroutines
WgWaitNone ==
  /\ send.pc = "wait"
  /\ send' = [ send EXCEPT !.pc = "range" ]
  /\ UNCHANGED << ops, account, balances, cache, rg, reqs, walks, asked,
                  scan, execs >>
  /\ UNCHANGED << dbVars, diVars, histVars, last >>

\* wg.Wait() returns; close(errchan)
WgWait ==
  /\ send.pc = "wait"
  /\ send.wg = 0
  /\ send' = [ send EXCEPT !.pc = "range" ]
  /\ UNCHANGED << ops, account, balances, cache, rg, reqs, walks, asked,
                  scan, execs >>
  /\ UNCHANGED << dbVars, diVars, histVars, last >>

\* for err := range errchan: the first error is returned, nil when the
\* closed channel is empty
RangeErrchan ==
  /\ send.pc = "range"
  /\ send' = IF send.errchan = << >>
               THEN [ send EXCEPT !.pc = "returned", !.err = FALSE ]
             ELSE IF Head(send.errchan)
               THEN [ send EXCEPT !.pc = "returned", !.err = TRUE ]
             ELSE [ send EXCEPT !.errchan = Tail(@) ]
  /\ UNCHANGED << ops, account, balances, cache, rg, reqs, walks, asked,
                  scan, execs >>
  /\ UNCHANGED << dbVars, diVars, histVars, last >>

InitSend == InitWith(FALSE, FALSE) /\ HandlersIdle

NextSend ==
  \/ \E v \in Messages, ok \in BOOLEAN : SignSeal(v, ok)
  \/ GoSend
  \/ \E i \in Chans, out \in SendOutcomes : SendSeal(i, out)
  \/ \E i \in Chans : PutErr(i)
  \/ \E i \in Chans : WgDone(i)
  \/ WgWait
  \/ RangeErrchan

\* one call of the send handler
SpecSend == InitSend /\ [][NextSend]_vars

\* C34: once the handler has returned for a message it signed, the seal has
\* been handed to every peer channel, every channel's send has finished and
\* its goroutine has ended, and the handler returned an error exactly when
\* the send of some channel failed; at no moment is a goroutine that has
\* the outcome of its send unable to put it in the error channel.
C34_SendToAllThenFirstError ==
  /\ (send.pc = "returned" /\ send.signed) =>
       /\ \A i \in Chans : send.chan[i].pc = "done"
       /\ send.err <=> \E i \in Chans : send.chan[i].out # "nil"
  /\ \A i \in Chans :
       send.chan[i].pc = "result" => Len(send.errchan) < NumChans

\* C34 witness: the handler has returned an error after all the channels
\* were sending at one moment, one send having succeeded and another one
\* having run into its timeout.
C34_Witness ==
  /\ send.pc = "returned" /\ send.signed /\ send.err
  /\ send.together
  /\ \E i, j \in Chans :
       send.chan[i].out = "nil" /\ send.chan[j].out = "deadline"


==============================================================================
